---- MODULE Spec2Model ----
(***************************************************************************)
(* Browser-driven report acquisition of WBagentforDasha:                   *)
(*   src/src/main.py                 main                                  *)
(*   src/src/agents/browser_agent.py BrowserAgent.execute_flow,            *)
(*                                   _detect_current_page_state,           *)
(*                                   process_cabinet, close_browser        *)
(* One run of main is one behaviour.  The browser, the console pages, the  *)
(* operator and the file system are the environment: every call into them  *)
(* draws its outcome with \E from the outcomes the call can have.          *)
(***************************************************************************)
EXTENDS Integers, Sequences, FiniteSets, TLC

VARIABLES
    pc,             \* position of the run inside main / execute_flow / process_cabinet
    driver,         \* self.driver: "none" (None), "open" (uc.Chrome built), "quit" (quit() invoked)
    current_cycle,  \* execute_flow local: startup detect cycles done
    authorized,     \* execute_flow local
    page_state,     \* execute_flow local: last value assigned from the detector
    detIn,          \* what the page showed to the detector call just made (<<>> when consumed)
    detOut,         \* what that detector call returned ("none" when consumed)
    idx,            \* position of the for loop over CABINETS (0 before the loop)
    flow,           \* per cabinet: state of its process_cabinet call
    calls,          \* per cabinet: number of process_cabinet invocations
    raised,         \* exception in flight out of execute_flow ("none" when none)
    exitCode,       \* value returned by main (-1 while running)
    archive,        \* cabinets whose archive copy exists under data_dir
    everReady,      \* some detector call of this run returned "reports_page"
    startupAuthOk,  \* an authorization attempt of the startup loop returned normally
    startupAuthFailed, \* an authorization attempt of the startup loop raised
    cabAuthFailed,  \* cabinets whose pre-flight re-authorization raised
    cabGetFailed,   \* cabinets whose pre-flight navigation raised
    attempt,        \* fill_input local: index of the pass of its retry loop (0 outside)
    polls,          \* watcher of the running flow: time.time() - start_time, whole seconds
    book,           \* normalizer: the sheet stored in the workbook file being normalised
    versions,       \* normalizer: the file's sheet at first, then as saved by each application
    check,          \* normalizer: outcome of fix_file_headers' re-open and compare
    npc,            \* normalizer: "ready", or "raised" after an application raised
    fpc,            \* files: position inside the cabinet flow being followed
    fcab,           \* files: which cabinet flow of the run is being followed
    date_str,       \* files: the run's target date as DD.MM.YYYY
    downloads,      \* files: self.downloads_dir, file name -> file
    data,           \* files: self.data_dir, archive path -> file
    elapsed,        \* files: time.time() - start_time of the watcher, whole seconds
    found,          \* files: what _wait_for_downloaded_file returned (<<>> is None)
    fresult,        \* files: per flow, what process_cabinet returned
    exports,        \* files: per flow, clicks on the export button
    watches,        \* files: per flow, calls of _wait_for_downloaded_file
    selected,       \* files: per flow, whether the click on the cabinet went through
    dpc,            \* API downloader: position inside download_yesterday_report_all_cabinets
    cabinets,       \* API downloader: get_cabinets_from_env(), the tokens in file order
    api_idx,        \* API downloader: idx of the for loop (0 before the loop)
    saved,          \* API downloader: cabinets whose download_report_to_excel returned True
    api_result,     \* API downloader: the value returned ("none" while running)
    apc,            \* authorization: position inside _perform_authorization
    alog,           \* authorization: what was done to the login form and asked of the operator, in order
    code_input2,    \* authorization: the local code_input2 ("unbound" until assigned)
    apage,          \* authorization: the page _check_authorization_required looked at last
    aresult,        \* authorization: how _perform_authorization ended ("none" while running)
    elem,           \* element operation: the call of fill_input / click_element being followed
    poll            \* report polling: the wait of download_report_to_excel being followed

normVars == <<book, versions, check, npc>>
fileVars ==
    <<fpc, fcab, date_str, downloads, data, elapsed, found, fresult, exports, watches,
      selected>>
apiVars == <<dpc, cabinets, api_idx, saved, api_result>>

authVars == <<apc, alog, code_input2, apage, aresult>>

waitVars == <<attempt, polls>>

vars == <<pc, driver, current_cycle, authorized, page_state, detIn, detOut, idx,
          flow, calls, raised, exitCode, archive, everReady, startupAuthOk,
          startupAuthFailed, cabAuthFailed, cabGetFailed, waitVars, normVars, fileVars,
          apiVars, authVars, elem, poll>>

(***************************************************************************)
(* Bounds and program constants                                            *)
(***************************************************************************)
\* number of configured cabinets in the model (CABINETS holds 6 in the source)
NumCabinets == 3

\* execute_flow: max_wait_cycles = 10
max_wait_cycles == 10

\* the watcher's timeout in the model, in seconds (60 in the source)
timeout == 6

\* fill_input: max_retries = 3
max_retries == 3

CABINETS == 1..NumCabinets

\* the authentication-host substring tested by the detector
AUTH_HOST == "seller-auth.wildberries.ru"

\* URLs as sequences of fragments; "in" is fragment containment
Urls == { <<"https://", "seller.wildberries.ru", "/analytics-reports/sales">>,
          <<"https://", "seller-auth.wildberries.ru", "/ru/">>,
          <<"https://", "seller.wildberries.ru", "/login?redirect=", "seller-auth.wildberries.ru">>,
          <<"about:blank">> }

\* outcome of reading driver.current_url: a URL, a WebDriver error, or a
\* KeyboardInterrupt delivered during the call
UrlReads == Urls \cup { <<"error">>, <<"interrupt">> }

\* outcome of one find_element probe: the element is returned, an Exception
\* is raised (NoSuchElementException or any other WebDriver error), or a
\* KeyboardInterrupt is delivered during the probe
Probes == { "found", "absent", "interrupt" }

Contains(url, frag) == \E i \in 1..Len(url) : url[i] = frag

(***************************************************************************)
(* _detect_current_page_state                                              *)
(***************************************************************************)
\* variant: the outer "except Exception" is missing
DetectPropagates_NoOuterCatch(url) == url \in { <<"interrupt">>, <<"error">> }

\* the url read raised something the outer "except Exception" does not catch
DetectPropagates(url) == url = <<"interrupt">>

\* what then leaves the detector
DetectRaises(url) == IF url = <<"interrupt">> THEN "KeyboardInterrupt" ELSE "detector_error"

\* bare "except: pass" around each probe: everything but a returned element
\* falls through to the next probe
ProbeHit(p) == p = "found"

\* variant: the landmark probes run before the url test
Detect_ProbesFirst(url, p1, p2, p3) ==
    IF url = <<"error">> THEN "unknown"
    ELSE IF ProbeHit(p1) \/ ProbeHit(p2) \/ ProbeHit(p3) THEN "reports_page"
    ELSE IF Contains(url, AUTH_HOST) THEN "auth_required"
    ELSE "unknown"

Detect(url, p1, p2, p3) ==
    IF url = <<"error">> THEN "unknown"
    ELSE IF Contains(url, AUTH_HOST) THEN "auth_required"
    ELSE IF ProbeHit(p1) THEN "reports_page"
    ELSE IF ProbeHit(p2) THEN "reports_page"
    ELSE IF ProbeHit(p3) THEN "reports_page"
    ELSE "unknown"

(***************************************************************************)
(* Exceptions                                                              *)
(***************************************************************************)
\* an exception leaves the outer try of execute_flow: "except Exception" logs
\* and re-raises, a KeyboardInterrupt passes it; both reach the finally block
Propagate(e) == /\ pc' = "finally"
                /\ raised' = e

Failed(c) == flow[c] \in { "failed", "timeout" }

\* the normalizer and the file system are followed by their own specifications
NormIdle == book = <<>> /\ versions = <<>> /\ check = "none" /\ npc = "idle"

FilesIdle ==
    /\ fpc = "idle" /\ fcab = 0 /\ date_str = "" /\ downloads = <<>> /\ data = <<>>
    /\ elapsed = 0 /\ found = <<>> /\ fresult = <<>> /\ exports = <<>> /\ watches = <<>>
    /\ selected = <<>>

ApiIdle ==
    dpc = "idle" /\ cabinets = <<>> /\ api_idx = 0 /\ saved = {} /\ api_result = "none"

\* the page no check has looked at
NoPage == [ url |-> << >>, elements |-> {}, broken |-> FALSE ]

\* the steps of _perform_authorization are followed by their own specification
AuthIdle ==
    /\ apc = "idle" /\ alog = <<>> /\ code_input2 = "unbound" /\ apage = NoPage
    /\ aresult = "none"

TypeOK ==
    /\ pc \in { "main", "start_browser", "navigate", "loop_head", "startup_branch",
                "startup_auth", "startup_redetect", "startup_recheck", "open_menu",
                "for_next", "cab_detect", "cab_branch", "cab_auth", "cab_process",
                "pc_select", "pc_period", "pc_export", "pc_wait", "pc_scan", "pc_file",
                "pc_backup", "cab_result", "finally", "returned", "exited" }
    /\ driver \in { "none", "open", "quit" }
    /\ current_cycle \in 0..(max_wait_cycles + 1)
    /\ authorized \in BOOLEAN
    /\ page_state \in { "none", "auth_required", "reports_page", "unknown" }
    /\ detOut \in { "none", "auth_required", "reports_page", "unknown" }
    /\ idx \in 0..NumCabinets
    /\ flow \in [CABINETS -> { "idle", "running", "ok", "failed", "timeout", "interrupted" }]
    /\ calls \in [CABINETS -> 0..2]
    /\ raised \in { "none", "KeyboardInterrupt", "browser_start_error", "navigation_error",
                   "url_read_error", "not_authorized", "authorization_error",
                   "detector_error", "cabinet_error" }
    /\ exitCode \in { -1, 0, 1 }
    /\ archive \subseteq CABINETS
    /\ everReady \in BOOLEAN
    /\ startupAuthOk \in BOOLEAN
    /\ startupAuthFailed \in BOOLEAN
    /\ cabAuthFailed \subseteq CABINETS
    /\ cabGetFailed \subseteq CABINETS
    /\ attempt \in 0..(max_retries - 1)
    /\ polls \in 0..timeout

Init ==
    /\ pc = "main"
    /\ driver = "none"
    /\ current_cycle = 0
    /\ authorized = FALSE
    /\ page_state = "none"
    /\ detIn = <<>>
    /\ detOut = "none"
    /\ idx = 0
    /\ flow = [c \in CABINETS |-> "idle"]
    /\ calls = [c \in CABINETS |-> 0]
    /\ raised = "none"
    /\ exitCode = -1
    /\ archive = {}
    /\ everReady = FALSE
    /\ startupAuthOk = FALSE
    /\ startupAuthFailed = FALSE
    /\ cabAuthFailed = {}
    /\ cabGetFailed = {}
    /\ attempt = 0
    /\ polls = 0
    /\ NormIdle
    /\ FilesIdle
    /\ ApiIdle
    /\ elem = <<>>
    /\ poll = <<>>
    /\ AuthIdle

loopVars == <<current_cycle, authorized, page_state>>
detVars  == <<detIn, detOut>>
cabVars  == <<idx, flow, calls, archive>>
authHist == <<startupAuthOk, startupAuthFailed, cabAuthFailed, cabGetFailed>>

(***************************************************************************)
(* main, up to the call of execute_flow                                    *)
(***************************************************************************)
\* Settings(), show_startup_warning(), the example-file check and the --date
\* parse: everything but "ok" makes main return 1 before any browser exists
MainPrechecks ==
    /\ pc = "main"
    /\ \E o \in { "ok", "declined", "no_example", "bad_date", "exception", "interrupt" } :
          IF o = "ok"
          THEN /\ pc' = "start_browser"
               /\ exitCode' = exitCode
          ELSE /\ pc' = "exited"
               /\ exitCode' = 1
    /\ UNCHANGED <<driver, loopVars, detVars, cabVars, raised, everReady, authHist>>
    /\ UNCHANGED <<waitVars, normVars, fileVars, apiVars, authVars, elem, poll>>

(***************************************************************************)
(* execute_flow: browser start and first navigation                        *)
(***************************************************************************)
\* start_browser: the binary is missing or uc.Chrome raises (driver stays
\* None), or the driver is built; an interrupt can arrive before or after
\* self.driver is assigned (the 5 s sleep)
StartBrowser ==
    /\ pc = "start_browser"
    /\ \E o \in { "ok", "exception", "interrupt_before", "interrupt_after" } :
          CASE o = "ok" ->
                  /\ driver' = "open"
                  /\ pc' = "navigate"
                  /\ raised' = raised
            [] o = "exception" ->
                  /\ driver' = driver
                  /\ Propagate("browser_start_error")
            [] o = "interrupt_before" ->
                  /\ driver' = driver
                  /\ Propagate("KeyboardInterrupt")
            [] o = "interrupt_after" ->
                  /\ driver' = "open"
                  /\ Propagate("KeyboardInterrupt")
    /\ UNCHANGED <<loopVars, detVars, cabVars, exitCode, everReady, authHist>>
    /\ UNCHANGED <<waitVars, normVars, fileVars, apiVars, authVars, elem, poll>>

CallOutcomes == { "ok", "exception", "interrupt" }

\* sleep(3); driver.get(WILDBERRIES_REPORTS_URL); sleep(delay_page_load)
Navigate ==
    /\ pc = "navigate"
    /\ \E o \in CallOutcomes :
          CASE o = "ok" -> /\ pc' = "loop_head"
                           /\ raised' = raised
            [] o = "exception" -> Propagate("navigation_error")
            [] o = "interrupt" -> Propagate("KeyboardInterrupt")
    /\ UNCHANGED <<driver, loopVars, detVars, cabVars, exitCode, everReady, authHist>>
    /\ UNCHANGED <<waitVars, normVars, fileVars, apiVars, authVars, elem, poll>>

(***************************************************************************)
(* One call of _detect_current_page_state by execute_flow                  *)
(***************************************************************************)
\* the page answers the url read and the three probes; the call returns
\* Detect(...) to the position okpc, or lets a KeyboardInterrupt through
DetectCall(okpc) ==
    \E url \in UrlReads, p1 \in Probes, p2 \in Probes, p3 \in Probes :
        IF DetectPropagates(url)
        THEN /\ Propagate(DetectRaises(url))
             /\ detIn' = <<>>
             /\ detOut' = "none"
             /\ everReady' = everReady
        ELSE /\ pc' = okpc
             /\ raised' = raised
             /\ detIn' = <<url, p1, p2, p3>>
             /\ detOut' = Detect(url, p1, p2, p3)
             /\ everReady' = (everReady \/ Detect(url, p1, p2, p3) = "reports_page")

(***************************************************************************)
(* execute_flow: the startup loop                                          *)
(***************************************************************************)
\* variant: the cycle bound is tested with <=
LoopCondition_OffByOne(auth, cycle) == ~auth /\ cycle <= max_wait_cycles

\* while not authorized and current_cycle < max_wait_cycles
LoopCondition(auth, cycle) == ~auth /\ cycle < max_wait_cycles

\* loop test passed: current_cycle += 1; page_state = detect()
StartupDetect ==
    /\ pc = "loop_head"
    /\ LoopCondition(authorized, current_cycle)
    /\ current_cycle' = current_cycle + 1
    /\ DetectCall("startup_branch")
    /\ page_state' = IF detOut' = "none" THEN page_state ELSE detOut'
    /\ UNCHANGED <<driver, authorized, cabVars, exitCode, authHist>>
    /\ UNCHANGED <<waitVars, normVars, fileVars, apiVars, authVars, elem, poll>>

\* variant: everything but the authorization page counts as ready
BreaksOutAuthorized_NotAuth(state) == state # "auth_required"

\* the classification that lets the startup loop break out authorized
BreaksOutAuthorized(state) == state = "reports_page"

\* if / elif / else on page_state; the else branch logs driver.current_url
\* (outside any handler but the outer one) and sleeps 30 s
StartupBranch ==
    /\ pc = "startup_branch"
    /\ detIn' = <<>>
    /\ detOut' = "none"
    /\ IF page_state = "auth_required"
       THEN /\ pc' = "startup_auth"
            /\ UNCHANGED <<authorized, raised>>
       ELSE IF BreaksOutAuthorized(page_state)
       THEN /\ authorized' = TRUE
            /\ pc' = "open_menu"
            /\ raised' = raised
       ELSE /\ authorized' = authorized
            /\ \E o \in CallOutcomes :
                  CASE o = "ok" -> /\ pc' = "loop_head"
                                   /\ raised' = raised
                    [] o = "exception" -> Propagate("url_read_error")
                    [] o = "interrupt" -> Propagate("KeyboardInterrupt")
    /\ UNCHANGED <<driver, current_cycle, page_state, cabVars, exitCode, everReady, authHist>>
    /\ UNCHANGED <<waitVars, normVars, fileVars, apiVars, authVars, elem, poll>>

\* variant: the startup loop lets the Exception out of _perform_authorization go
StartupAuthHandler_Reraise == Propagate("authorization_error")

\* handler of the startup loop for an Exception out of _perform_authorization:
\* log "continue monitoring" and fall to the next cycle
StartupAuthHandler ==
    /\ pc' = "loop_head"
    /\ raised' = raised

\* try: self._perform_authorization() ... except Exception
StartupAuth ==
    /\ pc = "startup_auth"
    /\ \E o \in CallOutcomes :
          CASE o = "ok" ->
                  /\ pc' = "startup_redetect"
                  /\ raised' = raised
                  /\ startupAuthOk' = TRUE
                  /\ startupAuthFailed' = startupAuthFailed
            [] o = "exception" ->
                  /\ StartupAuthHandler
                  /\ startupAuthFailed' = TRUE
                  /\ startupAuthOk' = startupAuthOk
            [] o = "interrupt" ->
                  /\ Propagate("KeyboardInterrupt")
                  /\ UNCHANGED <<startupAuthOk, startupAuthFailed>>
    /\ UNCHANGED <<driver, loopVars, detVars, cabVars, exitCode, everReady,
                   cabAuthFailed, cabGetFailed>>
    /\ UNCHANGED <<waitVars, normVars, fileVars, apiVars, authVars, elem, poll>>

\* sleep(5); self._detect_current_page_state() (value not stored)
StartupRedetect ==
    /\ pc = "startup_redetect"
    /\ DetectCall("startup_recheck")
    /\ UNCHANGED <<driver, loopVars, cabVars, exitCode, authHist>>
    /\ UNCHANGED <<waitVars, normVars, fileVars, apiVars, authVars, elem, poll>>

\* variant: an inconclusive authorization is tried again in the same cycle
StartupRecheck_Retry ==
    /\ pc = "startup_recheck"
    /\ detIn' = <<>>
    /\ detOut' = "none"
    /\ IF BreaksOutAuthorized(detOut)
       THEN /\ authorized' = TRUE
            /\ pc' = "open_menu"
       ELSE /\ authorized' = authorized
            /\ pc' = "startup_auth"
    /\ UNCHANGED <<driver, current_cycle, page_state, cabVars, raised, exitCode,
                   everReady, authHist>>
    /\ UNCHANGED <<waitVars, normVars, fileVars, apiVars, authVars, elem, poll>>

\* ... == "reports_page": authorized, break; else warn and go on
StartupRecheck ==
    /\ pc = "startup_recheck"
    /\ detIn' = <<>>
    /\ detOut' = "none"
    /\ IF BreaksOutAuthorized(detOut)
       THEN /\ authorized' = TRUE
            /\ pc' = "open_menu"
       ELSE /\ authorized' = authorized
            /\ pc' = "loop_head"
    /\ UNCHANGED <<driver, current_cycle, page_state, cabVars, raised, exitCode,
                   everReady, authHist>>
    /\ UNCHANGED <<waitVars, normVars, fileVars, apiVars, authVars, elem, poll>>

\* the loop ended without authorized: raise Exception("Не удалось авторизоваться")
StartupExhausted ==
    /\ pc = "loop_head"
    /\ ~LoopCondition(authorized, current_cycle)
    /\ ~authorized
    /\ Propagate("not_authorized")
    /\ UNCHANGED <<driver, loopVars, detVars, cabVars, exitCode, everReady, authHist>>
    /\ UNCHANGED <<waitVars, normVars, fileVars, apiVars, authVars, elem, poll>>

\* opening the profile menu before the cabinets: TimeoutException and any
\* other Exception are logged and tolerated
OpenMenu ==
    /\ pc = "open_menu"
    /\ \E o \in CallOutcomes :
          IF o = "interrupt"
          THEN Propagate("KeyboardInterrupt")
          ELSE /\ pc' = "for_next"
               /\ raised' = raised
    /\ UNCHANGED <<driver, loopVars, detVars, cabVars, exitCode, everReady, authHist>>
    /\ UNCHANGED <<waitVars, normVars, fileVars, apiVars, authVars, elem, poll>>

(***************************************************************************)
(* execute_flow: the loop over CABINETS                                    *)
(***************************************************************************)
\* variant: a cabinet whose flow failed is tried once more
NextIndex_RetryFailed(i) ==
    IF i >= 1 /\ flow[i] \in { "failed", "timeout" } /\ calls[i] < 2 THEN i ELSE i + 1

\* for idx, cabinet in enumerate(self.CABINETS, 1): the position after i
NextIndex(i) == i + 1

\* next iteration, or the loop is over and execute_flow completes normally
ForNext ==
    /\ pc = "for_next"
    /\ IF NextIndex(idx) <= NumCabinets
       THEN /\ idx' = NextIndex(idx)
            /\ pc' = "cab_detect"
       ELSE /\ idx' = idx
            /\ pc' = "finally"
    /\ UNCHANGED <<driver, loopVars, detVars, flow, calls, archive, raised, exitCode,
                   everReady, authHist>>
    /\ UNCHANGED <<waitVars, normVars, fileVars, apiVars, authVars, elem, poll>>

\* pre-flight: page_state = self._detect_current_page_state()
CabDetect ==
    /\ pc = "cab_detect"
    /\ DetectCall("cab_branch")
    /\ page_state' = IF detOut' = "none" THEN page_state ELSE detOut'
    /\ UNCHANGED <<driver, current_cycle, authorized, cabVars, exitCode, authHist>>
    /\ UNCHANGED <<waitVars, normVars, fileVars, apiVars, authVars, elem, poll>>

\* variant: the iteration's Exception is logged and the cabinet processed
CabinetHandler_GoOn ==
    /\ pc' = "cab_process"
    /\ raised' = raised

\* handler of one iteration: "except Exception: ... continue"
CabinetHandler ==
    /\ pc' = "for_next"
    /\ raised' = raised

\* driver.get(wildberries_start_url); sleep(delay_page_load), inside the
\* iteration's try; then the position okpc
CabinetGet(okpc) ==
    \E o \in CallOutcomes :
        CASE o = "ok" -> /\ pc' = okpc
                         /\ raised' = raised
                         /\ cabGetFailed' = cabGetFailed
          [] o = "exception" -> /\ CabinetHandler
                                /\ cabGetFailed' = IF okpc = "cab_process"
                                                    THEN cabGetFailed \cup {idx}
                                                    ELSE cabGetFailed
          [] o = "interrupt" -> /\ Propagate("KeyboardInterrupt")
                                /\ cabGetFailed' = cabGetFailed

\* if auth_required: re-authorize; elif unknown: navigate; else: go on
CabBranch ==
    /\ pc = "cab_branch"
    /\ detIn' = <<>>
    /\ detOut' = "none"
    /\ IF page_state = "auth_required"
       THEN /\ pc' = "cab_auth"
            /\ UNCHANGED <<raised, cabGetFailed>>
       ELSE IF page_state = "unknown"
       THEN CabinetGet("cab_process")
       ELSE /\ pc' = "cab_process"
            /\ UNCHANGED <<raised, cabGetFailed>>
    /\ UNCHANGED <<driver, loopVars, cabVars, exitCode, everReady, startupAuthOk,
                   startupAuthFailed, cabAuthFailed>>
    /\ UNCHANGED <<waitVars, normVars, fileVars, apiVars, authVars, elem, poll>>

\* self._perform_authorization(); sleep(5); driver.get(...); an Exception
\* out of either reaches the iteration's handler
CabAuth ==
    /\ pc = "cab_auth"
    /\ \E o \in CallOutcomes :
          CASE o = "ok" ->
                  /\ CabinetGet("cab_process")
                  /\ cabAuthFailed' = cabAuthFailed
            [] o = "exception" ->
                  /\ CabinetHandler
                  /\ cabAuthFailed' = cabAuthFailed \cup {idx}
                  /\ cabGetFailed' = cabGetFailed
            [] o = "interrupt" ->
                  /\ Propagate("KeyboardInterrupt")
                  /\ UNCHANGED <<cabAuthFailed, cabGetFailed>>
    /\ UNCHANGED <<driver, loopVars, detVars, cabVars, exitCode, everReady,
                   startupAuthOk, startupAuthFailed>>
    /\ UNCHANGED <<waitVars, normVars, fileVars, apiVars, authVars, elem, poll>>

(***************************************************************************)
(* process_cabinet                                                         *)
(***************************************************************************)
\* variant: the flow is started and the loop goes on without waiting for it
ProcessCabinetStart_NoWait ==
    /\ pc = "cab_process"
    /\ calls' = [calls EXCEPT ![idx] = @ + 1]
    /\ flow' = [flow EXCEPT ![idx] = "running"]
    /\ pc' = "for_next"
    /\ UNCHANGED <<driver, loopVars, detVars, idx, archive, raised, exitCode,
                   everReady, authHist>>
    /\ UNCHANGED <<waitVars, normVars, fileVars, apiVars, authVars, elem, poll>>

\* result = self.process_cabinet(cabinet, ...): the call is entered and
\* execute_flow waits for it
ProcessCabinetStart ==
    /\ pc = "cab_process"
    /\ calls' = [calls EXCEPT ![idx] = @ + 1]
    /\ flow' = [flow EXCEPT ![idx] = "running"]
    /\ pc' = "pc_select"
    /\ UNCHANGED <<driver, loopVars, detVars, idx, archive, raised, exitCode,
                   everReady, authHist>>
    /\ UNCHANGED <<waitVars, normVars, fileVars, apiVars, authVars, elem, poll>>

\* variant: a failed step raises out of process_cabinet and of the iteration
ReturnNone_Reraise(why) ==
    /\ flow' = [flow EXCEPT ![idx] = why]
    /\ Propagate("cabinet_error")

\* "except Exception: ... return None" of process_cabinet, and the explicit
\* "return None" after the watcher / file processing / backup
ReturnNone(why) ==
    /\ flow' = [flow EXCEPT ![idx] = why]
    /\ pc' = "cab_result"
    /\ raised' = raised

\* a KeyboardInterrupt passes process_cabinet's and the iteration's handlers
FlowInterrupted ==
    /\ flow' = [flow EXCEPT ![idx] = "interrupted"]
    /\ Propagate("KeyboardInterrupt")

\* one step of the flow made of browser calls: on, None, or interrupted
FlowStep(here, next) ==
    /\ pc = here
    /\ \E o \in CallOutcomes :
          CASE o = "ok" -> /\ pc' = next
                           /\ UNCHANGED <<flow, raised>>
            [] o = "exception" -> ReturnNone("failed")
            [] o = "interrupt" -> FlowInterrupted
    /\ UNCHANGED <<driver, loopVars, detVars, idx, calls, archive, exitCode,
                   everReady, authHist>>
    /\ UNCHANGED <<waitVars, normVars, fileVars, apiVars, authVars, elem, poll>>

\* "if attempt < max_retries - 1: ... continue", else raise
RetryStale(n) == n < max_retries - 1

\* steps 1-3: open the menu, fill_input(cabinet id), click the cabinet,
\* delete the reports; a pass of fill_input that meets a stale element is
\* repeated while RetryStale
PcSelect ==
    /\ pc = "pc_select"
    /\ \E o \in { "ok", "stale", "exception", "interrupt" } :
          CASE o = "ok" -> /\ pc' = "pc_period"
                           /\ attempt' = 0
                           /\ UNCHANGED <<flow, raised>>
            [] o = "stale" -> IF RetryStale(attempt)
                              THEN /\ attempt' = attempt + 1
                                   /\ UNCHANGED <<pc, flow, raised>>
                              ELSE /\ ReturnNone("failed")
                                   /\ attempt' = 0
            [] o = "exception" -> /\ ReturnNone("failed")
                                  /\ attempt' = 0
            [] o = "interrupt" -> /\ FlowInterrupted
                                  /\ attempt' = 0
    /\ UNCHANGED <<driver, loopVars, detVars, idx, calls, archive, exitCode,
                   everReady, authHist, polls>>
    /\ UNCHANGED <<normVars, fileVars, apiVars, authVars, elem, poll>>

\* step 4: calendar, start and end date, "save"
PcPeriod == FlowStep("pc_period", "pc_export")

\* step 5: clear the download directory, click "export to Excel"
PcExport == FlowStep("pc_export", "pc_wait")

\* downloaded_file = self._wait_for_downloaded_file(): the test of "while
\* time.time() - start_time < timeout"; past it the watcher returns None
\* and process_cabinet returns None
PcWait ==
    /\ pc = "pc_wait"
    /\ IF polls < timeout
       THEN /\ pc' = "pc_scan"
            /\ UNCHANGED <<flow, raised, polls>>
       ELSE /\ ReturnNone("timeout")
            /\ polls' = 0
    /\ UNCHANGED <<driver, loopVars, detVars, idx, calls, archive, exitCode,
                   everReady, authHist, attempt>>
    /\ UNCHANGED <<normVars, fileVars, apiVars, authVars, elem, poll>>

\* variant: the start time is taken anew at every pass
Slept_StartAnew(t) == 0

\* time.sleep(1): the watcher's clock at the next test
Slept(t) == t + 1

\* the body of the loop: the two globs, then return file_path or sleep
PcScan ==
    /\ pc = "pc_scan"
    /\ \E o \in { "file", "nothing", "exception", "interrupt" } :
          CASE o = "file" -> /\ pc' = "pc_file"
                             /\ polls' = 0
                             /\ UNCHANGED <<flow, raised>>
            [] o = "nothing" -> /\ pc' = "pc_wait"
                                /\ polls' = Slept(polls)
                                /\ UNCHANGED <<flow, raised>>
            [] o = "exception" -> /\ ReturnNone("failed")
                                  /\ polls' = 0
            [] o = "interrupt" -> /\ FlowInterrupted
                                  /\ polls' = 0
    /\ UNCHANGED <<driver, loopVars, detVars, idx, calls, archive, exitCode,
                   everReady, authHist, attempt>>
    /\ UNCHANGED <<normVars, fileVars, apiVars, authVars, elem, poll>>

\* step 6: _process_downloaded_file (rename, replace the first row)
PcFile == FlowStep("pc_file", "pc_backup")

\* step 7: _create_backup copies into data_dir/<date>/; then return the path
PcBackup ==
    /\ pc = "pc_backup"
    /\ \E o \in CallOutcomes :
          CASE o = "ok" -> /\ archive' = archive \cup {idx}
                           /\ flow' = [flow EXCEPT ![idx] = "ok"]
                           /\ pc' = "cab_result"
                           /\ raised' = raised
            [] o = "exception" -> /\ ReturnNone("failed")
                                  /\ archive' = archive
            [] o = "interrupt" -> /\ FlowInterrupted
                                  /\ archive' = archive
    /\ UNCHANGED <<driver, loopVars, detVars, idx, calls, exitCode, everReady, authHist>>
    /\ UNCHANGED <<waitVars, normVars, fileVars, apiVars, authVars, elem, poll>>

\* the result is logged; unless this was the last cabinet: back to the start
\* page and reopen the menu (menu errors tolerated)
CabResult ==
    /\ pc = "cab_result"
    /\ IF idx # NumCabinets
       THEN CabinetGet("for_next")
       ELSE /\ pc' = "for_next"
            /\ UNCHANGED <<raised, cabGetFailed>>
    /\ UNCHANGED <<driver, loopVars, detVars, cabVars, exitCode, everReady,
                   startupAuthOk, startupAuthFailed, cabAuthFailed>>
    /\ UNCHANGED <<waitVars, normVars, fileVars, apiVars, authVars, elem, poll>>

(***************************************************************************)
(* execute_flow's finally block, and the rest of main                      *)
(***************************************************************************)
\* variant: the browser is closed at the end of the try body, not in a finally
Finally_OnSuccessOnly ==
    /\ pc = "finally"
    /\ pc' = "returned"
    /\ IF driver = "open" /\ raised = "none"
       THEN /\ driver' = "quit"
            /\ \E o \in CallOutcomes :
                  raised' = IF o = "interrupt" THEN "KeyboardInterrupt" ELSE raised
       ELSE UNCHANGED <<driver, raised>>
    /\ UNCHANGED <<loopVars, detVars, cabVars, exitCode, everReady, authHist>>
    /\ UNCHANGED <<waitVars, normVars, fileVars, apiVars, authVars, elem, poll>>

\* close_browser: if self.driver: try: quit() except Exception: log
Finally ==
    /\ pc = "finally"
    /\ pc' = "returned"
    /\ IF driver = "open"
       THEN /\ driver' = "quit"
            /\ \E o \in CallOutcomes :
                  raised' = IF o = "interrupt" THEN "KeyboardInterrupt" ELSE raised
       ELSE UNCHANGED <<driver, raised>>
    /\ UNCHANGED <<loopVars, detVars, cabVars, exitCode, everReady, authHist>>
    /\ UNCHANGED <<waitVars, normVars, fileVars, apiVars, authVars, elem, poll>>

\* main: return 0 after execute_flow returned; except KeyboardInterrupt and
\* except Exception return 1
ExitCodeFor(e) == IF e = "none" THEN 0 ELSE 1

MainFinish ==
    /\ pc = "returned"
    /\ pc' = "exited"
    /\ exitCode' = ExitCodeFor(raised)
    /\ UNCHANGED <<driver, loopVars, detVars, cabVars, raised, everReady, authHist>>
    /\ UNCHANGED <<waitVars, normVars, fileVars, apiVars, authVars, elem, poll>>

Next ==
    \/ MainPrechecks
    \/ StartBrowser
    \/ Navigate
    \/ StartupDetect
    \/ StartupBranch
    \/ StartupAuth
    \/ StartupRedetect
    \/ StartupRecheck
    \/ StartupExhausted
    \/ OpenMenu
    \/ ForNext
    \/ CabDetect
    \/ CabBranch
    \/ CabAuth
    \/ ProcessCabinetStart
    \/ PcSelect
    \/ PcPeriod
    \/ PcExport
    \/ PcWait
    \/ PcScan
    \/ PcFile
    \/ PcBackup
    \/ CabResult
    \/ Finally
    \/ MainFinish

Spec == Init /\ [][Next]_vars

(***************************************************************************)
(* Properties                                                              *)
(***************************************************************************)
\* execute_flow has ended (its finally block ran; main may have returned too)
FlowEnded == pc \in { "returned", "exited" }

\* a process_cabinet call is on the stack
InFlow ==
    pc \in { "pc_select", "pc_period", "pc_export", "pc_wait", "pc_scan", "pc_file", "pc_backup" }

\* the run is in the pre-flight part of an iteration of the cabinet loop
InPreflight == pc \in { "cab_detect", "cab_branch", "cab_auth", "cab_process" }

\* C1: on every exit path of execute_flow after the browser was started
\* (normal completion, an exception, a keyboard interrupt) quit() has been
\* invoked when execute_flow has ended: the driver is never left open.
C1_BrowserClosedOnExit == FlowEnded => driver # "open"

\* C1 witness: a keyboard interrupt inside a cabinet flow, execute_flow has
\* ended with it in flight and quit() was invoked
C1_Witness ==
    /\ pc = "returned"
    /\ raised = "KeyboardInterrupt"
    /\ \E c \in CABINETS : flow[c] = "interrupted"
    /\ driver = "quit"

\* C2: cabinets are processed one at a time in list order: at most one flow
\* is running, it is the flow of the current loop position, and when the flow
\* of a cabinet has been started the iteration of every earlier cabinet is
\* over (its flow returned, or was not invoked because its pre-flight raised).
C2_SequentialCabinets ==
    /\ Cardinality({ c \in CABINETS : flow[c] = "running" }) <= 1
    /\ \A c \in CABINETS : flow[c] = "running" => (c = idx /\ InFlow)
    /\ \A i \in CABINETS, j \in CABINETS :
          (i < j /\ calls[j] > 0) => (flow[i] # "running" /\ idx > i)

\* C2 witness: the second cabinet's flow is running after the first one's returned
C2_Witness ==
    /\ flow[2] = "running"
    /\ flow[1] \in { "ok", "failed", "timeout" }

\* C3: process_cabinet is invoked at most once per cabinet; after a cabinet's
\* flow failed the loop is never again in an iteration for that cabinet.
C3_AtMostOncePerCabinet ==
    \A c \in CABINETS :
        /\ calls[c] <= 1
        /\ (Failed(c) /\ (InPreflight \/ InFlow)) => idx > c

\* C3 witness: the first cabinet failed and the second one's flow was invoked
C3_Witness ==
    /\ Failed(1)
    /\ calls[1] = 1
    /\ calls[2] = 1

\* cabinets whose own pre-flight raised (re-authorization or navigation)
PreflightFailed == cabAuthFailed \cup cabGetFailed

\* C4 (state part): once a cabinet's flow has failed, no Exception is in
\* flight out of execute_flow (only a keyboard interrupt can end the run), and
\* when execute_flow then completes, every cabinet was attempted: its flow was
\* invoked unless its own pre-flight raised.
C4_NoCrashAllAttempted ==
    (\E k \in CABINETS : Failed(k)) =>
        /\ raised \in { "none", "KeyboardInterrupt" }
        /\ (FlowEnded /\ raised = "none") =>
               /\ idx = NumCabinets
               /\ \A c \in CABINETS : calls[c] = 1 \/ c \in PreflightFailed

\* C4: fault isolation: the state part always holds, and no step of the run
\* ever removes an archive that was produced.
C4_FaultIsolation ==
    /\ []C4_NoCrashAllAttempted
    /\ [][archive \subseteq archive']_vars

\* C4 witness: scenario C, cabinet 2 of 3 timed out, 1 and 3 are archived and
\* execute_flow returned normally
C4_Witness ==
    /\ pc = "returned"
    /\ raised = "none"
    /\ flow[1] = "ok"
    /\ flow[2] = "timeout"
    /\ flow[3] = "ok"
    /\ {1, 3} \subseteq archive

\* C5 (as claimed): main returns 0 only when every cabinet's flow returned
\* an output file.
C5_ExitZeroOnlyOnFullSuccess ==
    exitCode = 0 => \A c \in CABINETS : flow[c] = "ok"

\* C6: the startup loop makes at most max_wait_cycles detect cycles; when no
\* cycle ended with reports_page, no cabinet flow is ever started,
\* execute_flow ends raising and main returns 1.
C6_StartupBound ==
    /\ current_cycle <= max_wait_cycles
    /\ ~authorized =>
          /\ \A c \in CABINETS : calls[c] = 0
          /\ pc = "returned" => raised # "none"
          /\ pc = "exited" => exitCode = 1

\* C6 witness: all the cycles were used up, the run ended with exit code 1
C6_Witness ==
    /\ pc = "exited"
    /\ current_cycle = max_wait_cycles
    /\ ~authorized
    /\ raised = "not_authorized"
    /\ exitCode = 1

\* C7: the cabinet loop is entered, and a cabinet flow invoked, only after a
\* detector call of this run returned reports_page.
C7_ReadyBeforeCabinets ==
    /\ (InPreflight \/ InFlow \/ pc \in { "open_menu", "for_next", "cab_result" })
          => (authorized /\ everReady)
    /\ (\E c \in CABINETS : calls[c] > 0) => everReady

\* C7 witness: scenario B, authorization was needed at start and went
\* through, and the first cabinet's flow is being invoked
C7_Witness ==
    /\ startupAuthOk
    /\ ~startupAuthFailed
    /\ pc = "pc_select"
    /\ idx = 1
    /\ cabAuthFailed = {}

\* C8 (as claimed): after any failed authorization attempt no cabinet flow
\* runs and execute_flow ends with a failure.
C8_AuthFailureFatal ==
    (startupAuthFailed \/ cabAuthFailed # {}) =>
        /\ ~InFlow
        /\ pc = "returned" => raised # "none"

\* C8 (amended): a failed authorization attempt is not fatal by itself.  Its
\* Exception never leaves execute_flow; at startup the run fails only with
\* the cycles used up and no cabinet flow started; a cabinet whose pre-flight
\* re-authorization failed is skipped (its flow is not invoked) and the loop
\* goes on.
C8_AuthFailureSkips ==
    /\ raised # "authorization_error"
    /\ raised = "not_authorized" =>
          /\ current_cycle = max_wait_cycles
          /\ \A c \in CABINETS : calls[c] = 0
    /\ \A c \in cabAuthFailed : calls[c] = 0 /\ flow[c] = "idle"
    /\ (cabAuthFailed # {} /\ FlowEnded /\ raised = "none") => idx = NumCabinets

\* C8 witness: authorization failed at startup and before cabinet 1, and the
\* run still completed with cabinet 2 processed
C8_Witness ==
    /\ startupAuthFailed
    /\ 1 \in cabAuthFailed
    /\ flow[2] = "ok"
    /\ pc = "returned"
    /\ raised = "none"

\* C9: whenever the url read by the detector contains the authentication
\* host, the detector returns auth_required, whatever the three landmark
\* probes would answer.
C9_AuthUrlWins ==
    (detOut # "none" /\ Contains(detIn[1], AUTH_HOST)) => detOut = "auth_required"

\* C9 witness: an authentication url together with a landmark that is present
C9_Witness ==
    /\ detOut = "auth_required"
    /\ detIn[2] = "found"

\* C10: every detector call that is not cut by a keyboard interrupt during
\* the url read returns one of the three states and no Exception leaves it;
\* a failing url read gives unknown; with a url without the authentication
\* host the result is reports_page iff one of the three probes found its
\* landmark, and unknown otherwise.
C10_DetectorTotal ==
    /\ raised # "detector_error"
    /\ detOut # "none" =>
          /\ detOut \in { "auth_required", "reports_page", "unknown" }
          /\ detIn[1] = <<"error">> => detOut = "unknown"
          /\ (detIn[1] \in Urls /\ ~Contains(detIn[1], AUTH_HOST)) =>
                /\ detOut = "reports_page" <=> (\E i \in 2..4 : detIn[i] = "found")
                /\ detOut = "unknown" <=> (\A i \in 2..4 : detIn[i] # "found")

\* C10 witness: the url read raised and the detector answered unknown
C10_Witness ==
    /\ detOut = "unknown"
    /\ detIn[1] = <<"error">>

(***************************************************************************)
(* Termination of execute_flow                                             *)
(***************************************************************************)
\* an upper bound on the steps main still takes: what is left of the
\* current loop body, of the loop's remaining passes, and of what follows.
\* IterationLeft: steps left in one iteration of the cabinet loop, counted
\* from its end, the watcher's loop by the seconds it has left, fill_input's
\* by its passes; IterationSteps: the longest iteration; CycleLeft and
\* CycleSteps: the same for a cycle of the startup loop
StepsLeft ==
    LET IterationLeft ==
            CASE pc = "for_next"    -> 0
              [] pc = "cab_result"  -> 1
              [] pc = "pc_backup"   -> 2
              [] pc = "pc_file"     -> 3
              [] pc = "pc_scan"     -> 4 + 2 * (timeout - polls)
              [] pc = "pc_wait"     -> 5 + 2 * (timeout - polls)
              [] pc = "pc_export"   -> 6 + 2 * timeout
              [] pc = "pc_period"   -> 7 + 2 * timeout
              [] pc = "pc_select"   -> 8 + 2 * timeout + (max_retries - 1 - attempt)
              [] pc = "cab_process" -> 8 + 2 * timeout + max_retries
              [] pc = "cab_auth"    -> 9 + 2 * timeout + max_retries
              [] pc = "cab_branch"  -> 10 + 2 * timeout + max_retries
              [] pc = "cab_detect"  -> 11 + 2 * timeout + max_retries
              [] OTHER -> 0
        IterationSteps == 12 + 2 * timeout + max_retries
        CycleLeft ==
            CASE pc = "loop_head"        -> 0
              [] pc = "startup_recheck"  -> 1
              [] pc = "startup_redetect" -> 2
              [] pc = "startup_auth"     -> 3
              [] pc = "startup_branch"   -> 4
              [] OTHER -> 0
        CycleSteps == 5
    IN
    CASE pc = "exited"   -> 0
      [] pc = "returned" -> 1
      [] pc = "finally"  -> 2
      [] InPreflight \/ InFlow \/ pc \in { "for_next", "cab_result" } ->
            3 + (NumCabinets - idx) * IterationSteps + IterationLeft
      [] pc = "open_menu" ->
            4 + NumCabinets * IterationSteps
      [] pc \in { "loop_head", "startup_branch", "startup_auth", "startup_redetect",
                  "startup_recheck" } ->
            5 + NumCabinets * IterationSteps
              + (max_wait_cycles - current_cycle) * CycleSteps + CycleLeft
      [] pc = "navigate" ->
            6 + NumCabinets * IterationSteps + max_wait_cycles * CycleSteps
      [] pc = "start_browser" ->
            7 + NumCabinets * IterationSteps + max_wait_cycles * CycleSteps
      [] OTHER ->
            8 + NumCabinets * IterationSteps + max_wait_cycles * CycleSteps

\* C22: execute_flow terminates when every call it makes returns and the
\* operator answers every prompt: until main has returned a step can be
\* taken, and every step (a cycle of the startup loop, an iteration over the
\* cabinets, a pass of the watcher's loop or of fill_input's retries) lowers
\* StepsLeft, so no run takes more than StepsLeft steps.
C22_BoundedSteps ==
    /\ [](pc # "exited" => ENABLED Next)
    /\ [][StepsLeft' < StepsLeft]_vars

\* C22 witness: execute_flow returned normally after the startup loop went
\* through all its cycles, the first cabinet's flow failed and the second
\* one's watcher ran into its timeout
C22_Witness ==
    /\ pc = "returned"
    /\ raised = "none"
    /\ current_cycle = max_wait_cycles
    /\ flow[1] = "failed"
    /\ flow[2] = "timeout"
    /\ calls[NumCabinets] = 1

(***************************************************************************)
(* The pre-flight of a cabinet                                             *)
(***************************************************************************)
\* C23: a cabinet's flow is started only when the latest classification,
\* made after the orchestrator's latest navigation or re-authorization, is
\* reports_page; never on an unknown or auth_required result, nor on a
\* classification older than that navigation.
C23_FlowOnlyOnFreshReportsReady ==
    pc = "cab_process" => page_state = "reports_page"

\* C24: in every iteration the detector runs before the cabinet's flow: the
\* flow is invoked only from the end of the pre-flight, which is reached
\* from the branch on this iteration's classification, directly when it is
\* not auth_required, and through a re-authorization that returned normally
\* when it is; a cabinet whose re-authorization raised is never processed.
C24_PreflightBeforeFlow ==
    /\ [](\A c \in cabAuthFailed : calls[c] = 0 /\ flow[c] = "idle")
    /\ [][ /\ (pc' = "pc_select" /\ pc # "pc_select") =>
                 (pc = "cab_process" /\ idx' = idx /\ calls'[idx] = calls[idx] + 1)
           /\ (pc' = "cab_process" /\ pc # "cab_process") =>
                 /\ idx' = idx
                 /\ \/ pc = "cab_branch" /\ page_state # "auth_required"
                    \/ pc = "cab_auth" /\ idx \notin cabAuthFailed'
           /\ (pc' = "cab_auth" /\ pc # "cab_auth") =>
                 (pc = "cab_branch" /\ page_state = "auth_required" /\ idx' = idx)
           /\ (pc' = "cab_branch" /\ pc # "cab_branch") =>
                 (pc = "cab_detect" /\ page_state' = detOut' /\ idx' = idx)
           /\ (pc' = "cab_detect" /\ pc # "cab_detect") =>
                 (pc = "for_next" /\ idx' = idx + 1)
         ]_vars

\* C24 witness: the second cabinet's pre-flight met the authorization page,
\* the re-authorization went through and the cabinet's flow was invoked,
\* after the first cabinet's re-authorization had failed
C24_Witness ==
    /\ pc = "pc_select"
    /\ idx = 2
    /\ page_state = "auth_required"
    /\ cabAuthFailed = {1}
    /\ calls[2] = 1

(***************************************************************************)
(* Worksheets as openpyxl presents them                                    *)
(***************************************************************************)
\* _replace_first_row: headers, columns A..P (transliterated here)
headers ==
    << "Brend", "Predmet", "Sezon", "Kollektsiya", "Naimenovanie",
       "Artikul postavshchika", "Nomenklatura", "Barkod", "Razmer", "Kontrakt",
       "Sklad", "Zakazano sht", "Zakazano sebestoimost", "Vykupili sht",
       "Vykupili rub", "Tekushchiy ostatok" >>

\* fix_headers_final.py: CORRECT_HEADERS, the same list
CORRECT_HEADERS == headers

\* columns a sheet of the model has beyond column P
ExtraCols == 1

\* rows a sheet of the model has at most
MaxRows == 3

Width == Len(headers) + ExtraCols

\* a cell without a value, and the read-only cell openpyxl puts at every
\* position of a merged range but its top-left one
Empty == ""
MergedCell == "<MergedCell>"

Row(v) == [c \in 1..Width |-> v]

HeaderRow == [c \in 1..Width |-> IF c <= Len(headers) THEN headers[c] ELSE Empty]

\* rows a report can hold: a title row, data rows, a row that already is the header
RowKinds == { Row("title"), Row("x"), Row("y"), HeaderRow }

\* merged ranges a report can hold: A1:C1, E1:Q1, D1:D2, A2:B2, A3:B3
Ranges ==
    { [min_row |-> 1, max_row |-> 1, min_col |-> 1, max_col |-> 3],
      [min_row |-> 1, max_row |-> 1, min_col |-> 5, max_col |-> Width],
      [min_row |-> 1, max_row |-> 2, min_col |-> 4, max_col |-> 4],
      [min_row |-> 2, max_row |-> 2, min_col |-> 1, max_col |-> 2],
      [min_row |-> 3, max_row |-> 3, min_col |-> 1, max_col |-> 2] }

InRange(r, i, c) == r.min_row <= i /\ i <= r.max_row /\ r.min_col <= c /\ c <= r.max_col
Anchor(r, i, c) == i = r.min_row /\ c = r.min_col

\* load_workbook: the stored cells, with a MergedCell at every non-anchor
\* position of every merged range (the sheet reaches down to the lowest
\* range); a MergedCell that was saved outside every range comes back empty
Load(rows, merged) ==
    LET last == CHOOSE n \in 0..(Len(rows) + 3) :
                    /\ n >= Len(rows)
                    /\ \A r \in merged : n >= r.max_row
                    /\ n = Len(rows) \/ \E r \in merged : n = r.max_row
    IN  [ rows |-> [i \in 1..last |->
                      [c \in 1..Width |->
                         IF \E r \in merged : InRange(r, i, c) /\ ~Anchor(r, i, c)
                         THEN MergedCell
                         ELSE IF i > Len(rows) THEN Empty
                         ELSE IF rows[i][c] = MergedCell THEN Empty
                         ELSE rows[i][c]]],
          merged |-> merged ]

\* the sheets a report file can hold: every merged range lies within the rows
Sheets ==
    LET RowSeqs == UNION { [1..n -> RowKinds] : n \in 0..MaxRows }
        RangesWithin(rows) == { q \in SUBSET Ranges : \A r \in q : r.max_row <= Len(rows) }
    IN  UNION { { Load(rows, m) : m \in RangesWithin(rows) } : rows \in RowSeqs }

\* variant: the range stays merged
unmerge_cells_Keep(ws, r) == ws

\* ws.unmerge_cells(str(merged_range)): the range is forgotten and its
\* MergedCells are removed from the sheet
unmerge_cells(ws, r) ==
    [ rows |-> [i \in 1..Len(ws.rows) |->
                  [c \in 1..Width |->
                     IF InRange(r, i, c) /\ ~Anchor(r, i, c) THEN Empty ELSE ws.rows[i][c]]],
      merged |-> ws.merged \ {r} ]

\* for merged_range in merged_ranges:
\*     if merged_range.min_row == 1 and merged_range.max_row == 1: unmerge
RECURSIVE UnmergeFirstRow(_, _)
UnmergeFirstRow(ws, merged_ranges) ==
    IF merged_ranges = {} THEN ws
    ELSE LET merged_range == CHOOSE r \in merged_ranges : TRUE
         IN  UnmergeFirstRow(IF merged_range.min_row = 1 /\ merged_range.max_row = 1
                             THEN unmerge_cells(ws, merged_range) ELSE ws,
                             merged_ranges \ {merged_range})

\* variant: the first row is kept
delete_rows_Keep(ws) == ws

\* ws.delete_rows(1): the cells below move up, MergedCells included; the
\* merged ranges of the sheet stay where they were
delete_rows(ws) ==
    [ rows |-> IF Len(ws.rows) = 0 THEN << >> ELSE Tail(ws.rows), merged |-> ws.merged ]

\* ws.cell(row=1, column=col_idx).value = header raises on a MergedCell
WriteRaises(ws) ==
    /\ Len(ws.rows) >= 1
    /\ \E c \in 1..Len(headers) : ws.rows[1][c] = MergedCell

\* for col_idx, header in enumerate(headers, start=1): write row 1
WriteHeaders(ws) ==
    [ rows |-> IF Len(ws.rows) = 0 THEN << HeaderRow >>
               ELSE [ws.rows EXCEPT ![1] =
                        [c \in 1..Width |-> IF c <= Len(headers)
                                            THEN headers[c] ELSE @[c]]],
      merged |-> ws.merged ]

\* _replace_first_row / fix_file_headers up to wb.save: what the file holds
\* afterwards, as the next load_workbook presents it; a raise leaves the file
replace_first_row(ws) ==
    LET d == delete_rows(UnmergeFirstRow(ws, ws.merged))
    IN  [ raised |-> WriteRaises(d),
          ws |-> IF WriteRaises(d) THEN ws
                 ELSE Load(WriteHeaders(d).rows, WriteHeaders(d).merged) ]

\* fix_file_headers: for i in range(1, 17): value != expected
HeadersMatch(ws) ==
    /\ Len(ws.rows) >= 1
    /\ \A i \in 1..Len(CORRECT_HEADERS) : ws.rows[1][i] = CORRECT_HEADERS[i]

(***************************************************************************)
(* The header normalizer applied to one report file                        *)
(***************************************************************************)
runVars == <<pc, driver, current_cycle, authorized, page_state, detIn, detOut, idx,
             flow, calls, raised, exitCode, archive, everReady, startupAuthOk,
             startupAuthFailed, cabAuthFailed, cabGetFailed, attempt, polls>>

\* no run of main is followed
RunIdle ==
    /\ pc = "idle" /\ driver = "none" /\ current_cycle = 0 /\ authorized = FALSE
    /\ page_state = "none" /\ detIn = <<>> /\ detOut = "none" /\ idx = 0
    /\ flow = <<>> /\ calls = <<>> /\ raised = "none" /\ exitCode = -1
    /\ archive = {} /\ everReady = FALSE /\ startupAuthOk = FALSE
    /\ startupAuthFailed = FALSE /\ cabAuthFailed = {} /\ cabGetFailed = {}
    /\ attempt = 0 /\ polls = 0

\* applications of the normalizer followed on one file
MaxApply == 2

\* load_workbook / wb.save work, or raise (unreadable file, disk error)
IoOutcomes == { "ok", "error" }

InitNorm ==
    /\ RunIdle
    /\ FilesIdle
    /\ ApiIdle
    /\ elem = <<>>
    /\ poll = <<>>
    /\ AuthIdle
    /\ book \in Sheets
    /\ versions = << book >>
    /\ check = "none"
    /\ npc = "ready"

\* BrowserAgent._replace_first_row(file_path): load, unmerge, delete, write,
\* save, close; "except Exception: log; raise"
ReplaceFirstRow ==
    /\ npc = "ready"
    /\ Len(versions) <= MaxApply
    /\ \E o \in IoOutcomes :
          CASE o = "error" ->
                  /\ npc' = "io_error"
                  /\ UNCHANGED <<book, versions, check>>
            [] o = "ok" /\ replace_first_row(book).raised ->
                  /\ npc' = "raised"
                  /\ UNCHANGED <<book, versions, check>>
            [] o = "ok" /\ ~replace_first_row(book).raised ->
                  /\ book' = replace_first_row(book).ws
                  /\ versions' = Append(versions, replace_first_row(book).ws)
                  /\ check' = "none"
                  /\ npc' = npc
    /\ UNCHANGED <<runVars, fileVars, apiVars, authVars, elem, poll>>

\* fix_headers_final.fix_file_headers(file_path): the same steps, then the
\* file is loaded again and row 1 is compared with CORRECT_HEADERS; the
\* function returns success, True or False
FixFileHeaders ==
    /\ npc = "ready"
    /\ Len(versions) <= MaxApply
    /\ \E o \in IoOutcomes :
          CASE o = "error" ->
                  /\ npc' = "io_error"
                  /\ UNCHANGED <<book, versions, check>>
            [] o = "ok" /\ replace_first_row(book).raised ->
                  /\ npc' = "raised"
                  /\ UNCHANGED <<book, versions, check>>
            [] o = "ok" /\ ~replace_first_row(book).raised ->
                  /\ book' = replace_first_row(book).ws
                  /\ versions' = Append(versions, replace_first_row(book).ws)
                  /\ check' = IF HeadersMatch(replace_first_row(book).ws)
                              THEN "ok" ELSE "mismatch"
                  /\ npc' = npc
    /\ UNCHANGED <<runVars, fileVars, apiVars, authVars, elem, poll>>

NextNorm ==
    \/ ReplaceFirstRow
    \/ FixFileHeaders

SpecNorm == InitNorm /\ [][NextNorm]_vars

\* every merged range of the sheet lies within row 1
RowOneOnly(ws) == \A r \in ws.merged : r.min_row = 1 /\ r.max_row = 1

\* A1..P1 hold the sixteen headers in order
FirstRowCanonical(ws) ==
    /\ Len(ws.rows) >= 1
    /\ \A c \in 1..16 : ws.rows[1][c] = headers[c]

\* C14: for every input sheet whose merged ranges (none, one or several) are
\* confined to row 1, whatever its first row holds, normalization does not
\* fail on a merged cell and every file it saves has A1..P1 equal to the 16
\* canonical headers in order
C14_CanonicalHeaderAfterNormalization ==
    RowOneOnly(versions[1]) =>
        /\ npc # "raised"
        /\ \A k \in 2..Len(versions) : FirstRowCanonical(versions[k])

\* a sheet with two merged ranges in row 1 and another first row was normalised
C14_Witness ==
    /\ Len(versions) >= 2
    /\ RowOneOnly(versions[1])
    /\ Cardinality(versions[1].merged) = 2
    /\ versions[1].rows[1][2] = MergedCell
    /\ FirstRowCanonical(versions[2])

C17_VerifiedAfterSave ==
    (Len(versions) >= 2 /\ npc = "ready") => check \in { "ok", "mismatch" }

(***************************************************************************)
(* Interrupts                                                              *)
(***************************************************************************)
\* the detector call just made ran a landmark probe during which a
\* KeyboardInterrupt was delivered: the url was read, is not on the
\* authentication host, and no earlier probe returned an element
ProbeInterrupted ==
    /\ detIn # <<>>
    /\ detIn[1] # <<"error">>
    /\ ~Contains(detIn[1], AUTH_HOST)
    /\ \/ detIn[2] = "interrupt"
       \/ ~ProbeHit(detIn[2]) /\ detIn[3] = "interrupt"
       \/ ~ProbeHit(detIn[2]) /\ ~ProbeHit(detIn[3]) /\ detIn[4] = "interrupt"

\* C19: a user interrupt delivered while execute_flow runs, a landmark probe
\* of the detector included, cancels the run: execute_flow is left through
\* its cleanup with the interrupt in flight and takes no further step, the
\* browser is closed and main returns 1
C19_InterruptCancels ==
    /\ ProbeInterrupted =>
          /\ pc \in { "finally", "returned", "exited" }
          /\ raised = "KeyboardInterrupt"
    /\ (raised = "KeyboardInterrupt" /\ pc = "exited") =>
          /\ exitCode = 1
          /\ driver # "open"

(***************************************************************************)
(* The download directory and the archive directory over a run             *)
(***************************************************************************)
\* the "name" entries of CABINETS, letter by letter
CabinetNames ==
    << <<"M", "A", "U">>, <<"M", "A", "B">>, <<"M", "M", "A">>,
       <<"c", "o", "s", "m", "o">>,
       <<"d", "r", "e", "a", "m", "l", "a", "b">>,
       <<"b", "e", "a", "u", "t", "y", "l", "a", "b">> >>

\* consecutive cabinet flows of one run that the file model follows
NumFlows == 2

\* largest size a file reaches in the model, in chunks
MaxSize == 2

\* time.time() - file_path.stat().st_mtime > 2
StableAge == 2

\* target dates, already formatted "%d.%m.%Y"
Dates == { "10.12.2025", "01.01.2026" }

\* str.lower() on the letters that occur
Lowercase == ("A" :> "a") @@ ("B" :> "b") @@ ("M" :> "m") @@ ("U" :> "u")

\* variant: the name is used as it is
lower_AsIs(name) == name

\* cabinet_name.lower()
lower(name) ==
    [i \in 1..Len(name) |-> IF name[i] \in DOMAIN Lowercase THEN Lowercase[name[i]] ELSE name[i]]

\* new_name = f"{cabinet_name} {date_str}.xlsx"
new_name(k, d) == CabinetNames[k] \o << " ", d, ".xlsx" >>

\* backup_path = self.data_dir / date_str / f"{cabinet_name.lower()}_{date_str}.xlsx"
backup_path(k, d) == [ folder |-> d, name |-> lower(CabinetNames[k]) \o << "_", d, ".xlsx" >> ]

\* the name the browser gives a download
DownloadNames == { << "report", ".xlsx" >> }

\* glob("*.xlsx") / glob("*.xls"): the name ends with the extension
Glob(dir, ext) == { n \in DOMAIN dir : n[Len(n)] = ext }

\* the content of a file nobody has opened yet
Unopened == [ rows |-> << >>, merged |-> {} ]

\* what a report arriving from the portal turns out to hold when it is first
\* opened: a title row merged over A1:C1 above two data rows, or the same
\* with D1:D2 merged as well
DownloadSheets ==
    { Load(<< Row("title"), Row("x"), Row("y") >>, { r \in Ranges : r.max_col = 3 }),
      Load(<< Row("title"), Row("x"), Row("y") >>, { r \in Ranges : r.max_col \in { 3, 4 } }) }

\* a file: size in chunks; age = whole seconds since its last write, rounded
\* up and capped; complete = its writer has finished; sheet = what it holds
\* once complete; fmt = the format of its content; origin = the flow whose export produced it (0: before the
\* run).  Kept for the properties: norm = times the normalizer saved it in this run,
\* stale = present and not written since the latest export click, stalled =
\* its writer once paused for more than StableAge seconds, seen = an earlier
\* poll of the watcher saw it with a nonzero size
OldAge == StableAge + 1

NewFile(k) ==
    [ size |-> 0, age |-> 1, complete |-> FALSE, sheet |-> Unopened, fmt |-> "xlsx",
      origin |-> k, norm |-> 0, stale |-> FALSE, stalled |-> FALSE, seen |-> FALSE ]

\* a report left by an earlier run: complete, old, normalised then; saved
\* as .xlsx, or exported to the old binary format
OldFile(fmt) ==
    [ size |-> MaxSize, age |-> OldAge, complete |-> TRUE,
      sheet |-> Load(<< HeaderRow, Row("x") >>, {}), fmt |-> fmt, origin |-> 0,
      norm |-> 0, stale |-> TRUE, stalled |-> FALSE, seen |-> FALSE ]

\* what self.downloads_dir can hold when the run starts: nothing, the first
\* cabinet's working copy of an earlier run for the same date, an .xls, or both
InitialDownloads(d) ==
    { << >>,
      (new_name(1, d) :> OldFile("xlsx")),
      (<< "old", ".xls" >> :> OldFile("xls")),
      (new_name(1, d) :> OldFile("xlsx")) @@ (<< "old", ".xls" >> :> OldFile("xls")) }

Min(a, b) == IF a < b THEN a ELSE b

\* one second passes for a file nobody writes
Aged(f) ==
    [f EXCEPT !.age = Min(f.age + 1, OldAge),
              !.stalled = f.stalled \/ (~f.complete /\ f.age + 1 > StableAge)]

\* the browser writes a chunk within the second; last: it was the final one
Written(f, last) ==
    [f EXCEPT !.size = Min(f.size + 1, MaxSize), !.age = 1, !.stale = FALSE,
              !.complete = last \/ f.size + 1 >= MaxSize]

\* the directory one second later: nothing was written, or the browser
\* wrote a chunk (the last or not) to the download of flow k, or that
\* download appeared (empty and growing in place, or complete at once)
Second(dir, k) ==
    { [n \in DOMAIN dir |-> Aged(dir[n])] }
    \cup
    { [n \in DOMAIN dir |-> IF n = w THEN Written(dir[n], last) ELSE Aged(dir[n])] :
         w \in { n \in DOMAIN dir : ~dir[n].complete /\ dir[n].origin = k },
         last \in BOOLEAN }
    \cup
    { [n \in DOMAIN dir |-> Aged(dir[n])] @@ (nm :> f) :
         nm \in { x \in DownloadNames :
                     x \notin DOMAIN dir /\ \A n \in DOMAIN dir : dir[n].origin # k },
         f \in { NewFile(k), Written(Written(NewFile(k), FALSE), TRUE) } }

\* a file by the time the next cabinet flow gets to the directory
Old(f) ==
    [f EXCEPT !.age = OldAge, !.stale = TRUE, !.seen = FALSE, !.stalled = ~f.complete]

\* the directory when the next cabinet flow gets to it: every file is old,
\* and a download that was still running has finished or is stuck
Later(dir) ==
    { [n \in DOMAIN dir |-> IF n \in F THEN Old(Written(dir[n], TRUE)) ELSE Old(dir[n])] :
      F \in SUBSET { n \in DOMAIN dir : ~dir[n].complete } }

Flows == 1..NumFlows

InitFiles ==
    /\ RunIdle
    /\ NormIdle
    /\ ApiIdle
    /\ elem = <<>>
    /\ poll = <<>>
    /\ AuthIdle
    /\ fpc = "begin"
    /\ fcab = 1
    /\ date_str \in Dates
    /\ downloads \in InitialDownloads(date_str)
    /\ data = << >>
    /\ elapsed = 0
    /\ found = << >>
    /\ fresult = [k \in Flows |-> "pending"]
    /\ exports = [k \in Flows |-> 0]
    /\ watches = [k \in Flows |-> 0]
    /\ selected = [k \in Flows |-> "pending"]

\* process_cabinet returns None
FlowFails(why) ==
    /\ fresult' = [fresult EXCEPT ![fcab] = why]
    /\ fpc' = "result"

\* steps 1-2: open the menu and wait for the search field (absence
\* tolerated), fill_input(cabinet id), then the click on the found cabinet
\* by label, checkbox label or checkbox input.
\* fill_input raising ends the flow; when none of the three click targets
\* is found, "except Exception" logs a warning and the flow goes on
SelectCabinet ==
    /\ fpc = "begin"
    /\ \E o \in { "clicked", "not_clicked", "error" } :
          CASE o = "clicked" ->
                  /\ selected' = [selected EXCEPT ![fcab] = "yes"]
                  /\ fpc' = "period"
                  /\ fresult' = fresult
            [] o = "not_clicked" ->
                  /\ selected' = [selected EXCEPT ![fcab] = "no"]
                  /\ fpc' = "period"
                  /\ fresult' = fresult
            [] o = "error" ->
                  /\ FlowFails("failed")
                  /\ selected' = selected
    /\ UNCHANGED <<fcab, date_str, downloads, data, elapsed, found, exports, watches>>
    /\ UNCHANGED <<runVars, normVars, apiVars, authVars, elem, poll>>

\* steps 3-4: delete_all_reports (its errors are logged and dropped), then
\* the calendar, the two dates and "save"; a missing element ends the flow
SetPeriod ==
    /\ fpc = "period"
    /\ \E o \in IoOutcomes :
          IF o = "ok" THEN fpc' = "clear" /\ fresult' = fresult
          ELSE FlowFails("failed")
    /\ UNCHANGED <<fcab, date_str, downloads, data, elapsed, found, exports, watches,
                   selected>>
    /\ UNCHANGED <<runVars, normVars, apiVars, authVars, elem, poll>>

\* _clear_downloads_folder: unlink every *.xlsx and *.xls; a file whose
\* unlink raises is logged and stays
ClearDownloads ==
    /\ fpc = "clear"
    /\ \E kept \in SUBSET (Glob(downloads, ".xlsx") \cup Glob(downloads, ".xls")) :
          downloads' =
             [n \in (DOMAIN downloads \ (Glob(downloads, ".xlsx") \cup Glob(downloads, ".xls")))
                    \cup kept |-> downloads[n]]
    /\ fpc' = "export"
    /\ UNCHANGED <<fcab, date_str, data, elapsed, found, fresult, exports, watches, selected>>
    /\ UNCHANGED <<runVars, normVars, apiVars, authVars, elem, poll>>

\* the "export to Excel" button is waited for and clicked, then
\* sleep(delay_after_click); a missing button ends the flow
ExportClick ==
    /\ fpc = "export"
    /\ \E o \in IoOutcomes :
          IF o = "ok"
          THEN /\ exports' = [exports EXCEPT ![fcab] = @ + 1]
               /\ downloads' \in
                    Second([n \in DOMAIN downloads |-> [downloads[n] EXCEPT !.stale = TRUE]],
                           fcab)
               /\ fpc' = "wait"
               /\ fresult' = fresult
          ELSE /\ FlowFails("failed")
               /\ UNCHANGED <<exports, downloads>>
    /\ UNCHANGED <<fcab, date_str, data, elapsed, found, watches, selected>>
    /\ UNCHANGED <<runVars, normVars, apiVars, authVars, elem, poll>>

\* _wait_for_downloaded_file is entered: start_time = time.time()
WatchStart ==
    /\ fpc = "wait"
    /\ watches' = [watches EXCEPT ![fcab] = @ + 1]
    /\ elapsed' = 0
    /\ found' = << >>
    /\ fpc' = "watch"
    /\ UNCHANGED <<fcab, date_str, downloads, data, fresult, exports, selected>>
    /\ UNCHANGED <<runVars, normVars, apiVars, authVars, elem, poll>>

\* variant: any file with a nonzero size is taken
Qualifies_AnyNonEmpty(f) == f.size > 0

\* st_size > 0 and time.time() - st_mtime > 2
Qualifies(f) == f.size > 0 /\ f.age > StableAge

\* the files one pass of the loop body can return: the first glob("*.xlsx")
\* hit that qualifies, in directory order; without one, the first
\* glob("*.xls") hit that qualifies
Candidates(dir) ==
    IF \E n \in Glob(dir, ".xlsx") : Qualifies(dir[n])
    THEN { n \in Glob(dir, ".xlsx") : Qualifies(dir[n]) }
    ELSE { n \in Glob(dir, ".xls") : Qualifies(dir[n]) }

\* while time.time() - start_time < timeout: scan; return file_path, or
\* time.sleep(1)
WatchPoll ==
    /\ fpc = "watch"
    /\ elapsed < timeout
    /\ IF Candidates(downloads) # {}
       THEN /\ found' \in Candidates(downloads)
            /\ fpc' = "process"
            /\ UNCHANGED <<downloads, elapsed>>
       ELSE /\ downloads' \in
                 Second([n \in DOMAIN downloads |->
                            [downloads[n] EXCEPT !.seen = @ \/ downloads[n].size > 0]],
                        fcab)
            /\ elapsed' = elapsed + 1
            /\ UNCHANGED <<found, fpc>>
    /\ UNCHANGED <<fcab, date_str, data, fresult, exports, watches, selected>>
    /\ UNCHANGED <<runVars, normVars, apiVars, authVars, elem, poll>>

\* variant: after a timeout the export is triggered again
WatchTimeout_Retry ==
    /\ fpc = "watch"
    /\ elapsed >= timeout
    /\ found' = << >>
    /\ fpc' = "export"
    /\ UNCHANGED <<fcab, date_str, downloads, data, elapsed, fresult, exports, watches, selected>>
    /\ UNCHANGED <<runVars, normVars, apiVars, authVars, elem, poll>>

\* the loop ends: return None; process_cabinet: "if not downloaded_file:
\* return None"
WatchTimeout ==
    /\ fpc = "watch"
    /\ elapsed >= timeout
    /\ found' = << >>
    /\ FlowFails("timeout")
    /\ UNCHANGED <<fcab, date_str, downloads, data, elapsed, exports, watches, selected>>
    /\ UNCHANGED <<runVars, normVars, apiVars, authVars, elem, poll>>

\* load_workbook accepts the file: it is whole and holds an xlsx workbook
Readable(f) == f.complete /\ f.fmt = "xlsx"

\* what the workbook holds: a readable file not opened before shows its sheet
Opened(f) == IF Readable(f) /\ f.sheet = Unopened THEN DownloadSheets ELSE { f.sheet }

\* the directory after "if new_path.exists() and file_path != new_path:
\* new_path.unlink()" and "if file_path != new_path: file_path.rename(new_path)"
Renamed(dir, file_path, new_path) ==
    [n \in (DOMAIN dir \ {file_path}) \cup {new_path} |->
        IF n = new_path THEN dir[file_path] ELSE dir[n]]

ProcessOutcomes == { "ok", "unlink_error", "rename_error", "io_error" }

\* variant: a file the normalizer failed on is archived all the same
ProcessFile_BackupAnyway ==
    /\ fpc = "process"
    /\ \E sh \in Opened(downloads[found]), o \in ProcessOutcomes :
          LET new_path == new_name(fcab, date_str)
              moved == Renamed([downloads EXCEPT ![found].sheet = sh], found, new_path)
              r == replace_first_row(sh)
          IN  CASE o = "unlink_error" ->
                      /\ new_path \in DOMAIN downloads /\ found # new_path
                      /\ FlowFails("failed")
                      /\ downloads' = downloads
                [] o = "rename_error" ->
                      /\ found # new_path
                      /\ FlowFails("failed")
                      /\ downloads' = [n \in DOMAIN downloads \ {new_path} |-> downloads[n]]
                [] o = "io_error" ->
                      /\ FlowFails("failed")
                      /\ downloads' = Renamed(downloads, found, new_path)
                [] o = "ok" ->
                      IF Readable(downloads[found]) /\ ~r.raised
                      THEN /\ downloads' =
                                [moved EXCEPT ![new_path] =
                                    [@ EXCEPT !.sheet = r.ws, !.norm = @ + 1,
                                              !.age = 1, !.stale = FALSE]]
                           /\ fpc' = "backup"
                           /\ fresult' = fresult
                      ELSE /\ downloads' = moved
                           /\ fpc' = "backup"
                           /\ fresult' = fresult
    /\ UNCHANGED <<fcab, date_str, data, elapsed, found, exports, watches, selected>>
    /\ UNCHANGED <<runVars, normVars, apiVars, authVars, elem, poll>>

\* _process_downloaded_file(downloaded_file, cabinet_name, date_str): unlink
\* a file in the way, rename, _replace_first_row; any Exception gives None
ProcessFile ==
    /\ fpc = "process"
    /\ \E sh \in Opened(downloads[found]), o \in ProcessOutcomes :
          LET new_path == new_name(fcab, date_str)
              moved == Renamed([downloads EXCEPT ![found].sheet = sh], found, new_path)
              r == replace_first_row(sh)
          IN  CASE o = "unlink_error" ->
                      /\ new_path \in DOMAIN downloads /\ found # new_path
                      /\ FlowFails("failed")
                      /\ downloads' = downloads
                [] o = "rename_error" ->
                      /\ found # new_path
                      /\ FlowFails("failed")
                      /\ downloads' = [n \in DOMAIN downloads \ {new_path} |-> downloads[n]]
                [] o = "io_error" ->
                      /\ FlowFails("failed")
                      /\ downloads' = Renamed(downloads, found, new_path)
                [] o = "ok" ->
                      IF Readable(downloads[found]) /\ ~r.raised
                      THEN /\ downloads' =
                                [moved EXCEPT ![new_path] =
                                    [@ EXCEPT !.sheet = r.ws, !.norm = @ + 1,
                                              !.age = 1, !.stale = FALSE]]
                           /\ fpc' = "backup"
                           /\ fresult' = fresult
                      ELSE /\ FlowFails("failed")
                           /\ downloads' = moved
    /\ UNCHANGED <<fcab, date_str, data, elapsed, found, exports, watches, selected>>
    /\ UNCHANGED <<runVars, normVars, apiVars, authVars, elem, poll>>

\* variant: the file is moved into the archive
CreateBackup_Move ==
    /\ fpc = "backup"
    /\ \E o \in IoOutcomes :
          IF o = "ok"
          THEN /\ data' = (backup_path(fcab, date_str) :>
                              downloads[new_name(fcab, date_str)]) @@ data
               /\ downloads' = [n \in DOMAIN downloads \ {new_name(fcab, date_str)} |->
                                   downloads[n]]
               /\ fresult' = [fresult EXCEPT ![fcab] = "ok"]
               /\ fpc' = "result"
          ELSE /\ FlowFails("failed")
               /\ UNCHANGED <<data, downloads>>
    /\ UNCHANGED <<fcab, date_str, elapsed, found, exports, watches, selected>>
    /\ UNCHANGED <<runVars, normVars, apiVars, authVars, elem, poll>>

\* _create_backup(processed_file, ...): mkdir, shutil.copy2; then
\* process_cabinet returns processed_file
CreateBackup ==
    /\ fpc = "backup"
    /\ \E o \in IoOutcomes :
          IF o = "ok"
          THEN /\ data' = (backup_path(fcab, date_str) :>
                              downloads[new_name(fcab, date_str)]) @@ data
               /\ fresult' = [fresult EXCEPT ![fcab] = "ok"]
               /\ fpc' = "result"
          ELSE /\ FlowFails("failed")
               /\ data' = data
    /\ UNCHANGED <<fcab, date_str, downloads, elapsed, found, exports, watches, selected>>
    /\ UNCHANGED <<runVars, normVars, apiVars, authVars, elem, poll>>

\* execute_flow takes the result and goes to the next cabinet, whose flow
\* reaches the directory many seconds later
FlowReturn ==
    /\ fpc = "result"
    /\ IF fcab < NumFlows
       THEN /\ fcab' = fcab + 1
            /\ fpc' = "begin"
            /\ downloads' \in Later(downloads)
       ELSE /\ fpc' = "done"
            /\ UNCHANGED <<fcab, downloads>>
    /\ elapsed' = 0
    /\ found' = << >>
    /\ UNCHANGED <<date_str, data, fresult, exports, watches, selected>>
    /\ UNCHANGED <<runVars, normVars, apiVars, authVars, elem, poll>>

NextFiles ==
    \/ SelectCabinet
    \/ SetPeriod
    \/ ClearDownloads
    \/ ExportClick
    \/ WatchStart
    \/ WatchPoll
    \/ WatchTimeout
    \/ ProcessFile
    \/ CreateBackup
    \/ FlowReturn

SpecFiles == InitFiles /\ [][NextFiles]_vars

\* every name a file of the download directory can have
FileNames ==
    { << "old", ".xls" >> } \cup DownloadNames \cup { new_name(k, date_str) : k \in Flows }

FilesTypeOK ==
    /\ fpc \in { "begin", "period", "clear", "export", "wait", "watch", "process", "backup",
                 "result", "done" }
    /\ fcab \in Flows
    /\ date_str \in Dates
    /\ elapsed \in 0..timeout
    /\ \A n \in DOMAIN downloads :
          /\ downloads[n].size \in 0..MaxSize
          /\ downloads[n].age \in 1..OldAge
          /\ downloads[n].origin \in 0..NumFlows
    /\ DOMAIN downloads \subseteq FileNames
    /\ found \in { << >> } \cup FileNames
    /\ fresult \in [Flows -> { "pending", "ok", "failed", "timeout" }]
    /\ selected \in [Flows -> { "pending", "yes", "no" }]

\* C11: a file produced by the current export that keeps growing (its writer
\* never pauses for more than 2 seconds) and then stops is returned by the
\* watcher only once it is no longer being written, and never at the first
\* poll that sees it with a nonzero size
C11_ReturnedOnlyWhenStable ==
    (fpc = "process" /\ downloads[found].origin = fcab /\ ~downloads[found].stalled) =>
        /\ downloads[found].complete
        /\ downloads[found].seen
        /\ downloads[found].size > 0

\* the watcher returned this flow's download, which had grown to its full
\* size without a pause, some seconds after the watcher started
C11_Witness ==
    /\ fpc = "process"
    /\ downloads[found].origin = fcab
    /\ ~downloads[found].stalled
    /\ downloads[found].size = MaxSize
    /\ elapsed > StableAge + 1

\* the archive path the flow of cabinet k writes, spelled out per cabinet
LoweredNames ==
    << <<"m", "a", "u">>, <<"m", "a", "b">>, <<"m", "m", "a">>,
       <<"c", "o", "s", "m", "o">>,
       <<"d", "r", "e", "a", "m", "l", "a", "b">>,
       <<"b", "e", "a", "u", "t", "y", "l", "a", "b">> >>

ArchivePath(k) == [ folder |-> date_str, name |-> LoweredNames[k] \o << "_", date_str, ".xlsx" >> ]

WorkingCopy(k) == CabinetNames[k] \o << " ", date_str, ".xlsx" >>

\* C12: the watcher is left without a file only when its timeout has
\* passed; the cabinet flow then fails: nothing of it is archived, and in no
\* flow is the export clicked or the watcher called a second time
C12_TimeoutFailsOnce ==
    /\ \A k \in Flows : exports[k] <= 1 /\ watches[k] <= 1
    /\ fpc = "watch" => elapsed <= timeout
    /\ \A k \in Flows :
          fresult[k] = "timeout" =>
              /\ exports[k] = 1 /\ watches[k] = 1
              /\ ArchivePath(k) \notin DOMAIN data
    /\ (fpc = "result" /\ fresult[fcab] = "timeout") =>
          found = << >> /\ elapsed = timeout

\* a watcher ran into its timeout while the download was still growing
C12_Witness ==
    /\ fpc = "result"
    /\ fresult[fcab] = "timeout"
    /\ elapsed = timeout
    /\ \E n \in DOMAIN downloads : downloads[n].origin = fcab /\ ~downloads[n].complete

\* C13: the file the watcher returns has a nonzero size and is new or was
\* written after the export was triggered: it is never a spreadsheet that
\* lay unchanged in the download directory before the trigger
C13_OnlyFreshFilesReturned ==
    fpc = "process" => (downloads[found].size > 0 /\ ~downloads[found].stale)

\* C16: across a run no file is saved by the normalizer more than once,
\* neither a file of the download directory nor one that got archived
C16_NormalizedAtMostOnce ==
    /\ \A n \in DOMAIN downloads : downloads[n].norm <= 1
    /\ \A q \in DOMAIN data : data[q].norm <= 1

\* C18: every cabinet flow that succeeded has left an archive file at
\* {date}/{lowercased cabinet name}_{date}.xlsx under the archive directory,
\* and row 1 of that file is the canonical header
C18_ArchiveAtPathWithHeader ==
    \A k \in Flows :
        fresult[k] = "ok" =>
            /\ ArchivePath(k) \in DOMAIN data
            /\ FirstRowCanonical(data[ArchivePath(k)].sheet)

\* the first cabinet's flow succeeded on a download named report.xlsx
C18_Witness ==
    /\ fpc = "result"
    /\ fcab = 1
    /\ fresult[1] = "ok"
    /\ found = << "report", ".xlsx" >>
    /\ ArchivePath(1) \in DOMAIN data
    /\ ArchivePath(1).name[1] = "m"

C25_NoSpreadsheetAtExport ==
    fpc = "export" => Glob(downloads, ".xlsx") \cup Glob(downloads, ".xls") = {}

\* C26: a flow in which the click on the cabinet did not go through triggers
\* no export, and a cabinet has an archive file only if it was selected in
\* its flow
C26_ExportOnlyAfterSelection ==
    \A k \in Flows :
        /\ exports[k] > 0 => selected[k] = "yes"
        /\ ArchivePath(k) \in DOMAIN data => selected[k] = "yes"

\* C27: the normalizer runs only on the file the watcher returned, after the
\* rename; the archive copy is made only at the backup step, from the working
\* copy the normalizer has saved with the canonical header; a flow that
\* fails writes no archive
C27_PostDownloadOrder ==
    /\ [](fpc = "process" =>
             /\ watches[fcab] >= 1
             /\ found \in DOMAIN downloads
             /\ Qualifies(downloads[found]))
    /\ [][ /\ (fpc' = "process" /\ fpc # "process") =>
                 (fpc = "watch" /\ found' \in Candidates(downloads))
           /\ fpc # "process" =>
                 \A n \in DOMAIN downloads' \cap DOMAIN downloads :
                     downloads'[n].norm = downloads[n].norm
           /\ (fpc' = "backup" /\ fpc # "backup") =>
                 /\ fpc = "process"
                 /\ WorkingCopy(fcab) \in DOMAIN downloads'
                 /\ found # WorkingCopy(fcab) => found \notin DOMAIN downloads'
                 /\ downloads'[WorkingCopy(fcab)].norm = downloads[found].norm + 1
                 /\ FirstRowCanonical(downloads'[WorkingCopy(fcab)].sheet)
           /\ data' # data =>
                 /\ fpc = "backup"
                 /\ fresult'[fcab] = "ok"
                 /\ downloads[WorkingCopy(fcab)].norm >= 1
                 /\ data' = (ArchivePath(fcab) :> downloads[WorkingCopy(fcab)]) @@ data
           /\ (fresult[fcab] = "pending" /\ fresult'[fcab] \in { "failed", "timeout" }) =>
                 (data' = data /\ fpc' = "result")
         ]_vars

\* the first flow failed inside _process_downloaded_file and left no archive
\* file; the second one archived a download the normalizer saved once
C27_Witness ==
    /\ fpc = "result"
    /\ fcab = 2
    /\ fresult[1] = "failed" /\ watches[1] = 1
    /\ ArchivePath(1) \notin DOMAIN data
    /\ fresult[2] = "ok"
    /\ data[ArchivePath(2)].origin = 2
    /\ data[ArchivePath(2)].norm = 1

\* C28: the steps after the selection of the cabinet run only in a flow whose
\* click on the cabinet went through, and a flow whose click failed returns
\* None
C28_NoStepAfterFailure ==
    /\ fpc \in { "clear", "export", "wait", "watch", "process", "backup" } =>
          selected[fcab] = "yes"
    /\ \A k \in Flows :
          (selected[k] = "no" /\ (k < fcab \/ fpc \in { "result", "done" })) =>
              fresult[k] = "failed"

(***************************************************************************)
(* src/src/wb_report_downloader.py: download_yesterday_report_all_cabinets *)
(***************************************************************************)
\* most entries of the .env file in the model
MaxEnvCabinets == 4

\* get_cabinets_from_env(): the kept entries in file order (none when the
\* file is missing, unreadable or holds no value); a kept value is not
\* empty: a token, or blanks that api_token.strip() reduces to nothing
EnvCabinets == UNION { [1..n -> { "token", "blank" }] : n \in 0..MaxEnvCabinets }

InitApi ==
    /\ RunIdle
    /\ NormIdle
    /\ FilesIdle
    /\ AuthIdle
    /\ elem = <<>>
    /\ poll = <<>>
    /\ dpc = "start"
    /\ cabinets \in EnvCabinets
    /\ api_idx = 0
    /\ saved = {}
    /\ api_result = "none"

\* "if not cabinets: ... return False"; otherwise the dates are computed
\* and the loop is entered
GetCabinets ==
    /\ dpc = "start"
    /\ IF Len(cabinets) = 0
       THEN /\ dpc' = "returned"
            /\ api_result' = "False"
       ELSE /\ dpc' = "loop"
            /\ api_result' = api_result
    /\ UNCHANGED <<cabinets, api_idx, saved>>
    /\ UNCHANGED <<runVars, normVars, fileVars, authVars, elem, poll>>

\* one iteration of "for idx, (cabinet_name, api_token) in enumerate(...)":
\* empty token: return False; success is False: continue; an Exception:
\* return False; otherwise the file is reported saved (and sleep(3))
DownloadCabinet ==
    /\ dpc = "loop"
    /\ api_idx < Len(cabinets)
    /\ api_idx' = api_idx + 1
    /\ IF cabinets[api_idx + 1] = "blank"
       THEN /\ dpc' = "returned"
            /\ api_result' = "False"
            /\ saved' = saved
       ELSE \E success \in { "True", "False", "exception" } :
               CASE success = "True" ->
                       /\ saved' = saved \cup { api_idx + 1 }
                       /\ UNCHANGED <<dpc, api_result>>
                 [] success = "False" ->
                       UNCHANGED <<dpc, api_result, saved>>
                 [] success = "exception" ->
                       /\ dpc' = "returned"
                       /\ api_result' = "False"
                       /\ saved' = saved
    /\ UNCHANGED cabinets
    /\ UNCHANGED <<runVars, normVars, fileVars, authVars, elem, poll>>

\* the loop is over: "return True"
AllDownloaded ==
    /\ dpc = "loop"
    /\ api_idx = Len(cabinets)
    /\ dpc' = "returned"
    /\ api_result' = "True"
    /\ UNCHANGED <<cabinets, api_idx, saved>>
    /\ UNCHANGED <<runVars, normVars, fileVars, authVars, elem, poll>>

NextApi ==
    \/ GetCabinets
    \/ DownloadCabinet
    \/ AllDownloaded

SpecApi == InitApi /\ [][NextApi]_vars

\* C21: download_yesterday_report_all_cabinets returns True only if the
\* report of every cabinet of the configuration was downloaded; when the
\* download of any cabinet failed it returns False
C21_TrueOnlyIfAllDownloaded ==
    /\ api_result = "True" => saved = 1..Len(cabinets)
    /\ (dpc = "returned" /\ saved # 1..api_idx) => api_result = "False"

(***************************************************************************)
(* BrowserAgent._perform_authorization, _check_authorization_required      *)
(***************************************************************************)
\* a page as a check finds it: the url read (a URL of Urls or a WebDriver
\* error), which of the elements the two checks look for are present, and
\* whether the lookups raise something other than TimeoutException (the
\* session is gone)
Pages ==
    [ url : Urls \cup { <<"error">> },
      elements : SUBSET { "suppliers-search", "calendar-button", "span-sales",
                          "span-reports", "phone-input" },
      broken : BOOLEAN ]

\* word in current_url.lower(), for the words the code tests: some fragment
\* of the url has the word as a substring; the fragments of Urls are
\* lower-case
In(word, url) ==
    LET HasSubstring(frag) ==
            \/ frag = word
            \/ word = "auth" /\ frag = "seller-auth.wildberries.ru"
            \/ word = "login" /\ frag = "/login?redirect="
            \/ word = "analytics-reports/sales" /\ frag = "/analytics-reports/sales"
    IN  \E i \in 1..Len(url) : HasSubstring(url[i])

\* _check_authorization_required: a landmark (the search field, the calendar
\* button, a span with the Russian for "Sales" or "Reports") gives False; then the phone input
\* gives True; then "login" or "auth" in the url gives True; then False; an
\* Exception other than the TimeoutException of a wait gives True
check_authorization_required(page) ==
    IF page.broken THEN TRUE
    ELSE IF "suppliers-search" \in page.elements THEN FALSE
    ELSE IF "calendar-button" \in page.elements THEN FALSE
    ELSE IF "span-sales" \in page.elements \/ "span-reports" \in page.elements THEN FALSE
    ELSE IF "phone-input" \in page.elements THEN TRUE
    ELSE IF page.url = <<"error">> THEN TRUE
    ELSE In("login", page.url) \/ In("auth", page.url)

\* _detect_current_page_state on the same page; ProbeOf is what
\* find_element gives the detector for an element
DetectOn(page) ==
    LET ProbeOf(el) == IF ~page.broken /\ el \in page.elements THEN "found" ELSE "absent"
    IN  Detect(page.url, ProbeOf("suppliers-search"), ProbeOf("calendar-button"),
               ProbeOf("span-sales"))

\* what is done to the login form and asked of the operator, in the order
\* of the authentication flow's states
AuthOrder ==
    << "enter_identity", "submit_identity", "ask_code1", "enter_code1", "submit_code1",
       "ask_code2", "enter_code2", "submit_code2", "verify" >>

\* the positions of _perform_authorization in program order
AuthSteps ==
    << "enter_identity", "submit_identity", "enter_first_code", "submit_first_code",
       "find_second_code", "enter_second_code", "submit_second_code", "verify",
       "open_reports", "ended" >>

InitAuth ==
    /\ RunIdle
    /\ NormIdle
    /\ FilesIdle
    /\ ApiIdle
    /\ elem = <<>>
    /\ poll = <<>>
    /\ apc = "enter_identity"
    /\ alog = << >>
    /\ code_input2 = "unbound"
    /\ apage = NoPage
    /\ aresult = "none"

\* "except Exception as e: ... raise" around the whole body
AuthRaises ==
    /\ apc' = "ended"
    /\ aresult' = "raised"

\* a KeyboardInterrupt at a prompt passes "except Exception"
AuthInterrupted ==
    /\ apc' = "ended"
    /\ aresult' = "interrupted"

\* PHONE_NUMBER must be set; the phone input is waited for, clicked,
\* cleared, and the digits are typed
EnterIdentity ==
    /\ apc = "enter_identity"
    /\ \E o \in { "ok", "no_phone_number", "timeout" } :
          IF o = "ok"
          THEN /\ alog' = Append(alog, "enter_identity")
               /\ apc' = "submit_identity"
               /\ aresult' = aresult
          ELSE /\ AuthRaises
               /\ alog' = alog
    /\ UNCHANGED <<code_input2, apage>>
    /\ UNCHANGED <<runVars, normVars, fileVars, apiVars, elem, poll>>

\* the submit button by its test id, by the arrow image, or by the button
\* around the image; the TimeoutException of the last wait is not caught
SubmitIdentity ==
    /\ apc = "submit_identity"
    /\ \E o \in { "clicked", "timeout" } :
          IF o = "clicked"
          THEN /\ alog' = Append(alog, "submit_identity")
               /\ apc' = "enter_first_code"
               /\ aresult' = aresult
          ELSE /\ AuthRaises
               /\ alog' = alog
    /\ UNCHANGED <<code_input2, apage>>
    /\ UNCHANGED <<runVars, normVars, fileVars, apiVars, elem, poll>>

PromptOutcomes == { "typed", "eof", "interrupt" }

\* variant: the operator is asked for the code while the identity is still
\* to be submitted
EnterFirstCode_BeforeSubmit ==
    /\ apc = "submit_identity"
    /\ alog' = alog \o << "ask_code1", "enter_code1" >>
    /\ apc' = "submit_first_code"
    /\ UNCHANGED <<code_input2, apage, aresult>>
    /\ UNCHANGED <<runVars, normVars, fileVars, apiVars, elem, poll>>

\* the code field is waited for; code1 = input(...); the code is typed
EnterFirstCode ==
    /\ apc = "enter_first_code"
    /\ \/ /\ AuthRaises
          /\ alog' = alog
       \/ \E o \in PromptOutcomes :
             CASE o = "typed" ->
                     /\ alog' = alog \o << "ask_code1", "enter_code1" >>
                     /\ apc' = "submit_first_code"
                     /\ aresult' = aresult
               [] o = "eof" ->
                     /\ alog' = Append(alog, "ask_code1")
                     /\ AuthRaises
               [] o = "interrupt" ->
                     /\ alog' = Append(alog, "ask_code1")
                     /\ AuthInterrupted
    /\ UNCHANGED <<code_input2, apage>>
    /\ UNCHANGED <<runVars, normVars, fileVars, apiVars, elem, poll>>

\* button[type="submit"] is clicked when it shows up within 3 seconds
SubmitFirstCode ==
    /\ apc = "submit_first_code"
    /\ \E o \in { "clicked", "timeout" } :
          alog' = IF o = "clicked" THEN Append(alog, "submit_code1") ELSE alog
    /\ apc' = "find_second_code"
    /\ UNCHANGED <<code_input2, apage, aresult>>
    /\ UNCHANGED <<runVars, normVars, fileVars, apiVars, elem, poll>>

\* the field for the second code is waited for; on TimeoutException "if not
\* self._check_authorization_required(): return", and otherwise the flow
\* goes on with code_input2 never assigned
FindSecondCode ==
    /\ apc = "find_second_code"
    /\ \/ /\ code_input2' = "bound"
          /\ apc' = "enter_second_code"
          /\ UNCHANGED <<apage, aresult, alog>>
       \/ \E page \in Pages :
             /\ apage' = page
             /\ code_input2' = code_input2
             /\ IF check_authorization_required(page)
                THEN /\ apc' = "enter_second_code"
                     /\ UNCHANGED <<aresult, alog>>
                ELSE /\ apc' = "ended"
                     /\ aresult' = "returned"
                     /\ alog' = Append(alog, "verify")
    /\ UNCHANGED <<runVars, normVars, fileVars, apiVars, elem, poll>>

\* code2 = input(...); code_input2.click() raises UnboundLocalError when the
\* field was not found; otherwise the code is typed
EnterSecondCode ==
    /\ apc = "enter_second_code"
    /\ \E o \in PromptOutcomes :
          CASE o = "typed" ->
                  IF code_input2 = "bound"
                  THEN /\ alog' = alog \o << "ask_code2", "enter_code2" >>
                       /\ apc' = "submit_second_code"
                       /\ aresult' = aresult
                  ELSE /\ alog' = Append(alog, "ask_code2")
                       /\ AuthRaises
            [] o = "eof" ->
                  /\ alog' = Append(alog, "ask_code2")
                  /\ AuthRaises
            [] o = "interrupt" ->
                  /\ alog' = Append(alog, "ask_code2")
                  /\ AuthInterrupted
    /\ UNCHANGED <<code_input2, apage>>
    /\ UNCHANGED <<runVars, normVars, fileVars, apiVars, elem, poll>>

\* the login button is clicked when it shows up within 5 seconds; sleep(5)
SubmitSecondCode ==
    /\ apc = "submit_second_code"
    /\ \E o \in { "clicked", "timeout" } :
          alog' = IF o = "clicked" THEN Append(alog, "submit_code2") ELSE alog
    /\ apc' = "verify"
    /\ UNCHANGED <<code_input2, apage, aresult>>
    /\ UNCHANGED <<runVars, normVars, fileVars, apiVars, elem, poll>>

\* "if self._check_authorization_required(): raise Exception(...)"
Verify ==
    /\ apc = "verify"
    /\ \E page \in Pages :
          /\ apage' = page
          /\ alog' = Append(alog, "verify")
          /\ IF check_authorization_required(page)
             THEN AuthRaises
             ELSE apc' = "open_reports" /\ aresult' = aresult
    /\ code_input2' = code_input2
    /\ UNCHANGED <<runVars, normVars, fileVars, apiVars, elem, poll>>

\* current_url is read; without "analytics-reports/sales" in it the start
\* url is loaded; then _perform_authorization returns
OpenReports ==
    /\ apc = "open_reports"
    /\ \E url \in UrlReads \ { <<"interrupt">> }, get \in { "ok", "error" } :
          IF url = <<"error">> \/ (~In("analytics-reports/sales", url) /\ get = "error")
          THEN AuthRaises
          ELSE apc' = "ended" /\ aresult' = "returned"
    /\ UNCHANGED <<alog, code_input2, apage>>
    /\ UNCHANGED <<runVars, normVars, fileVars, apiVars, elem, poll>>

NextAuth ==
    \/ EnterIdentity
    \/ SubmitIdentity
    \/ EnterFirstCode
    \/ SubmitFirstCode
    \/ FindSecondCode
    \/ EnterSecondCode
    \/ SubmitSecondCode
    \/ Verify
    \/ OpenReports

SpecAuth == InitAuth /\ [][NextAuth]_vars

\* the position of an entry in a tuple without repetitions (0: not in it)
IndexIn(seq, x) == IF \E i \in 1..Len(seq) : seq[i] = x
                   THEN CHOOSE i \in 1..Len(seq) : seq[i] = x
                   ELSE 0

Logged(ev) == \E i \in 1..Len(alog) : alog[i] = ev

\* C29: the flow moves forward only through its positions, what it does to
\* the form and asks of the operator comes in the order identity, submit,
\* first code, submit, second code, submit, verification; the first code is
\* asked for only after the identity was entered and submitted, the second
\* one only after the first code was typed
C29_FixedOrder ==
    /\ [](\A i, j \in 1..Len(alog) :
             i < j => IndexIn(AuthOrder, alog[i]) < IndexIn(AuthOrder, alog[j]))
    /\ [](Logged("ask_code1") =>
             /\ Len(alog) >= 3
             /\ alog[1] = "enter_identity" /\ alog[2] = "submit_identity"
             /\ alog[3] = "ask_code1")
    /\ [](Logged("ask_code2") => Logged("enter_code1"))
    /\ [][ /\ IndexIn(AuthSteps, apc') > IndexIn(AuthSteps, apc)
           /\ \E tail \in { << >> } \cup { <<a>> : a \in { AuthOrder[i] : i \in 1..Len(AuthOrder) } }
                           \cup { << "ask_code1", "enter_code1" >>,
                                  << "ask_code2", "enter_code2" >> } :
                 alog' = alog \o tail ]_vars

\* both codes were asked for and typed, every button was clicked, and the
\* flow returned
C29_Witness ==
    /\ aresult = "returned"
    /\ alog = AuthOrder

\* C30: the flow returns normally only when the page state detector, run on
\* the page the final check looked at, does not say auth_required; when it
\* says auth_required the flow raises
C30_VerifiedByDetector ==
    (apc = "ended" /\ Logged("verify")) =>
        /\ aresult = "returned" => DetectOn(apage) # "auth_required"
        /\ DetectOn(apage) = "auth_required" => aresult \in { "raised" }

\* C31: at each of the three submit controls (after the identity, after the
\* first code, after the second code) a control that does not show up is
\* skipped, and the flow goes on to its next position
C31_MissingSubmitTolerated ==
    [][ /\ apc \in { "submit_identity", "submit_first_code", "submit_second_code" } =>
              aresult' = "none"
        /\ apc \in { "submit_identity", "submit_first_code", "submit_second_code" } =>
              apc' # "ended"
      ]_vars

\* C32: the operator is asked for the second code only when the field for
\* it was found
C32_SecondCodeOnlyWithField ==
    Logged("ask_code2") => code_input2 = "bound"

\* C35: a normalization that saved a sheet of at least two rows left it one
\* row shorter, with every row from the former row 3 on moved up unchanged,
\* with the cells of the former row 2 beyond column P in the new row 1, and
\* with every merged range that was not within row 1 still merged
C35_OnlyHeaderChanges ==
    \A k \in 1..(Len(versions) - 1) :
        Len(versions[k].rows) >= 2 =>
            /\ Len(versions[k + 1].rows) = Len(versions[k].rows) - 1
            /\ \A i \in 2..(Len(versions[k].rows) - 1) :
                  /\ i \in DOMAIN versions[k + 1].rows
                  /\ versions[k + 1].rows[i] = versions[k].rows[i + 1]
            /\ \A c \in (Len(headers) + 1)..Width :
                  versions[k + 1].rows[1][c] = versions[k].rows[2][c]
            /\ \A r \in versions[k].merged :
                  ~(r.min_row = 1 /\ r.max_row = 1) => r \in versions[k + 1].merged

\* C34: the loop over the cabinets moves on from a cabinet that is not the
\* last only through the step that navigates to the start page and reopens
\* the menu
C34_NavigationBetweenCabinets ==
    [][ /\ (pc' = "for_next" /\ pc # "for_next" /\ idx >= 1 /\ idx # NumCabinets) =>
              pc = "cab_result"
      ]_vars

MaxText == 2

\* a call of fill_input(text, clear) or of click_element, on a page whose
\* input holds nothing or an earlier entry
InitElem ==
    /\ elem \in [ pc : { "locate" }, op : { "fill", "click" }, clear : BOOLEAN,
                  text : UNION { [1..n -> { "1", "2" }] : n \in 0..MaxText },
                  field : { <<>>, <<"0">> }, found : { <<>> }, attempt : { 0 },
                  typed : { 0 }, result : { "none" }, error : { "none" } ]
    /\ poll = <<>>
    /\ RunIdle
    /\ NormIdle
    /\ FilesIdle
    /\ ApiIdle
    /\ AuthIdle

\* the handlers: fill_input goes to its next pass on a stale element while
\* RetryStale (the element that took the stale one's place holds the same
\* content or none) and re-raises otherwise; click_element logs and
\* re-raises every Exception; a KeyboardInterrupt passes both
ElemFails(kind) ==
    IF elem.op = "fill" /\ kind = "stale" /\ RetryStale(elem.attempt)
    THEN \E content \in { elem.field, <<>> } :
            elem' = [elem EXCEPT !.pc = "locate", !.attempt = @ + 1, !.typed = 0,
                                 !.field = content]
    ELSE elem' = [elem EXCEPT !.pc = "ended",
                              !.result = IF kind = "interrupt" THEN "interrupted"
                                         ELSE "raised",
                              !.error = kind]

\* element = WebDriverWait(...).until(...): a fresh reference to the element
\* now on the page, or TimeoutException
Locate ==
    /\ elem.pc = "locate"
    /\ \E o \in { "ok", "exception", "interrupt" } :
          IF o = "ok"
          THEN elem' = [elem EXCEPT !.pc = "scroll", !.found = elem.field]
          ELSE ElemFails(o)
    /\ UNCHANGED <<runVars, normVars, fileVars, apiVars, authVars, poll>>

\* execute_script("arguments[0].scrollIntoView(true);", element)
Scroll ==
    /\ elem.pc = "scroll"
    /\ \E o \in { "ok", "stale", "exception", "interrupt" } :
          IF o = "ok"
          THEN elem' = [elem EXCEPT !.pc = IF elem.op = "click" THEN "click"
                                           ELSE IF elem.clear THEN "clear"
                                           ELSE "send_keys"]
          ELSE ElemFails(o)
    /\ UNCHANGED <<runVars, normVars, fileVars, apiVars, authVars, poll>>

\* variant: the field is emptied in the first pass only
Cleared_FirstPassOnly(e) == IF e.attempt = 0 THEN <<>> ELSE e.field

\* the field's content after "arguments[0].value = '';"
Cleared(e) == <<>>

\* if clear: execute_script("arguments[0].value = '';", element)
Clear ==
    /\ elem.pc = "clear"
    /\ \E o \in { "ok", "stale", "exception", "interrupt" } :
          IF o = "ok"
          THEN elem' = [elem EXCEPT !.pc = "send_keys", !.field = Cleared(elem)]
          ELSE ElemFails(o)
    /\ UNCHANGED <<runVars, normVars, fileVars, apiVars, authVars, poll>>

\* for char in text: element.send_keys(char); after the last one: return
SendKeys ==
    /\ elem.pc = "send_keys"
    /\ IF elem.typed < Len(elem.text)
       THEN \E o \in { "ok", "stale", "exception", "interrupt" } :
               IF o = "ok"
               THEN elem' = [elem EXCEPT !.typed = @ + 1,
                                         !.field = Append(@, elem.text[elem.typed + 1])]
               ELSE ElemFails(o)
       ELSE elem' = [elem EXCEPT !.pc = "ended", !.result = "returned"]
    /\ UNCHANGED <<runVars, normVars, fileVars, apiVars, authVars, poll>>

\* element.click(), then return
Click ==
    /\ elem.pc = "click"
    /\ \E o \in { "ok", "stale", "exception", "interrupt" } :
          IF o = "ok"
          THEN elem' = [elem EXCEPT !.pc = "ended", !.result = "returned"]
          ELSE ElemFails(o)
    /\ UNCHANGED <<runVars, normVars, fileVars, apiVars, authVars, poll>>

NextElem == Locate \/ Scroll \/ Clear \/ SendKeys \/ Click

SpecElem == InitElem /\ [][NextElem]_vars

\* C33: an element operation that raised a stale-element error did so in its
\* third attempt, after two retries
C33_StaleRetried ==
    (elem.result = "raised" /\ elem.error = "stale") => elem.attempt = max_retries - 1

\* C37: fill_input called with clear = True that returned left exactly the
\* requested text in the field
C37_ExactTextAfterClear ==
    (elem.op = "fill" /\ elem.clear /\ elem.result = "returned") =>
        elem.field = elem.text

\* fill_input with clear = True returned from a later pass whose element
\* still held a character typed in the aborted pass
C37_Witness ==
    /\ elem.op = "fill"
    /\ elem.clear
    /\ elem.result = "returned"
    /\ elem.attempt >= 1
    /\ Len(elem.text) = MaxText
    /\ elem.found = <<elem.text[1]>>

(***************************************************************************)
(* download_report_to_excel: waiting for the generated report              *)
(***************************************************************************)
\* max_wait_time = 60
max_wait_time == 60

\* wait_interval = 3
wait_interval == 3

\* the report was created and has a downloadId: report_result = None,
\* retry_count = 0 (status_code 0 stands for a result without that key)
InitPoll ==
    /\ poll = [ pc |-> "while", retry_count |-> 0, calls |-> 0,
                report_result |-> [ success |-> FALSE, status_code |-> 0,
                                    format |-> "none", data |-> "" ],
                outcome |-> "none" ]
    /\ elem = <<>>
    /\ RunIdle
    /\ NormIdle
    /\ FilesIdle
    /\ ApiIdle
    /\ AuthIdle

\* variant: every failed request counts as "not ready yet"
NotReady_AnyError(res) == ~res.success

\* elif report_result.get("status_code") == 404 (after success was excluded)
NotReady(res) == ~res.success /\ res.status_code = 404

\* one pass of "while retry_count < max_retries": the request, then break on
\* success, count and sleep on 404, break on anything else; an exception
\* that get_analytics_report_file does not catch leaves the loop as well
GetReportFile ==
    LET max_tries == max_wait_time \div wait_interval
        Results ==
            [ success : { TRUE }, status_code : { 200 }, format : { "zip", "unknown" },
              data : { "", "PK" } ]
            \cup [ success : { FALSE }, status_code : { 0, 401, 404, 429, 500 },
                   format : { "none" }, data : { "" } ]
    IN  /\ poll.pc = "while"
        /\ IF poll.retry_count < max_tries
           THEN \/ \E res \in Results :
                      poll' = [poll EXCEPT
                                 !.calls = @ + 1,
                                 !.report_result = res,
                                 !.retry_count = IF NotReady(res) THEN @ + 1 ELSE @,
                                 !.pc = IF NotReady(res) THEN "while" ELSE "after"]
                \/ poll' = [poll EXCEPT !.calls = @ + 1, !.pc = "ended",
                                        !.outcome = "raised"]
           ELSE poll' = [poll EXCEPT !.pc = "after"]
        /\ UNCHANGED <<runVars, normVars, fileVars, apiVars, authVars, elem>>

\* if report_result and report_result.get("success"): a ZIP with data is
\* unpacked and converted, everything else falls to the other sources
AfterPoll ==
    /\ poll.pc = "after"
    /\ poll' = [poll EXCEPT
                  !.pc = "ended",
                  !.outcome = IF /\ poll.report_result.success
                                 /\ poll.report_result.data # ""
                                 /\ poll.report_result.format = "zip"
                              THEN "unpack"
                              ELSE "fall_back"]
    /\ UNCHANGED <<runVars, normVars, fileVars, apiVars, authVars, elem>>

NextPoll == GetReportFile \/ AfterPoll

SpecPoll == InitPoll /\ [][NextPoll]_vars

\* C38: get_analytics_report_file is called at most 20 times for one
\* created report, and the loop is still open after a call only when that
\* call answered 404 without success
C38_BoundedPolling ==
    /\ poll.calls <= 20
    /\ poll.calls = poll.retry_count + (IF poll.pc = "while" THEN 0 ELSE
                                        IF poll.report_result.success
                                           \/ poll.report_result.status_code # 404
                                           \/ poll.outcome = "raised"
                                        THEN 1 ELSE 0)
    /\ (poll.pc = "while" /\ poll.calls >= 1) =>
          (~poll.report_result.success /\ poll.report_result.status_code = 404)

\* the wait ran out: twenty requests, all answered 404
C38_Witness ==
    /\ poll.pc = "ended"
    /\ poll.calls = 20
    /\ poll.retry_count = 20
    /\ poll.report_result.status_code = 404
    /\ poll.outcome = "fall_back"

====
